---- MODULE Spec2Model ----
(***************************************************************************)
(* Escalation Decision Engine of our_solution/backend/app:                 *)
(*   - GPTAnalyzer._apply_enhanced_escalation_logic  (Resolve)             *)
(*   - SeverityClassifier.classify_severity          (ClassifySeverity)    *)
(*   - LearningFeedback.record_*                     (Record/RecordOutcome)*)
(*   - ImpactAssessor.calculate_impact_score         (AssessImpact)        *)
(*                                                                         *)
(* Python dicts are functions whose DOMAIN is the set of keys present;     *)
(* d.get(k, default) is Get(d, k, default).  Python strings that the code  *)
(* inspects character by character (strip, startswith) are sequences of    *)
(* one-character strings.                                                  *)
(***************************************************************************)
EXTENDS Integers, Sequences, FiniteSets, TLC

VARIABLES
    \* ---- Escalation Resolver -------------------------------------------
    confidence_assessment,    \* dict argument of _apply_enhanced_escalation_logic
    impact_assessment,        \* dict argument
    severity_classification,  \* dict argument
    gpt_decision,             \* dict argument (the advisory decision object)
    final_decision,           \* dict returned by the last call
    resolve_pc,               \* "call": arguments bound, "returned": call finished
    \* ---- Severity Classifier --------------------------------------------
    parsed_alert,             \* dict argument of classify_severity
    has_gpt_analyzer,         \* whether a gpt_analyzer was passed
    client_outcome,           \* what the chat client did during the call
    severity_result,          \* pending, or the outcome of classify_severity
    \* ---- Learning Feedback Recorder --------------------------------------
    clock,                    \* int(datetime.now().timestamp())
    feedback_hooks,           \* self.feedback_hooks
    hook_log,                 \* the decision records the registered hooks were called with
    stored_decisions,         \* feedback ids handed to _store_decision_record, in order
    stored_outcomes,          \* feedback ids handed to _store_outcome_record, in order
    feedback_return,          \* outcome of the last record_* call
    \* ---- Impact Assessor -------------------------------------------------
    impact_parsed_alert,      \* parsed_alert argument of calculate_impact_score
    similar_cases,            \* similar_cases argument
    impact_result,            \* pending, or the dict calculate_impact_score returned
    \* ---- Confidence Assessor ---------------------------------------------
    log_evidence,             \* len(log_evidence) argument of generate_confidence_assessment
    confidence_cases,         \* similar_cases argument
    kb_articles,              \* kb_articles argument
    confidence_parsed,        \* parsed argument
    evidence_summary,         \* len(evidence_summary) argument
    confidence_result,        \* pending, or the dict generate_confidence_assessment returned
    \* ---- Escalation pipeline -----------------------------------------------
    pipeline_pc,              \* the step of get_enhanced_escalation_decision that runs next
    pipeline_locals,          \* the parameters and locals of the call bound so far
    \* ---- Request tracker ---------------------------------------------------
    manager_instance,         \* RequestQueueManager._instance (0 is None)
    objects_created,          \* objects allocated by super().__new__ so far
    manager_initialized,      \* the _initialized attribute of the instance
    class_lock,               \* holder of RequestQueueManager._lock, thread + 1 (0 is free)
    thread_pc,                \* where each thread is in RequestQueueManager()
    thread_self,              \* the object __new__ returned to each thread
    module_loaded,            \* request_queue.py has been imported
    init_runs,                \* how often the body of __init__ has run
    issued_ids,               \* request ids create_request has returned
    requests,                 \* self.requests
    queue,                    \* self.queue
    active_requests,          \* self.active_requests
    completed_requests,       \* self.completed_requests
    queue_return,             \* outcome of the last call of a request method
    \* ---- Outcome analysis --------------------------------------------------
    recorded_decision,        \* the escalation decision of the decision record on file
    analysis_outcome,         \* final_outcome argument of record_resolution_outcome
    analysis_result,          \* pending, or the outcome of _analyze_outcome
    \* ---- Request tracker, status queries -----------------------------------
    request_lock,             \* self.request_lock: 0 free, 1 held
    call_stack,               \* the frames of the status query in progress, innermost last
    status_return             \* outcome of the last status query

resolveVars == <<confidence_assessment, impact_assessment, severity_classification,
                 gpt_decision, final_decision, resolve_pc>>

severityVars == <<parsed_alert, has_gpt_analyzer, client_outcome, severity_result>>

feedbackVars == <<clock, feedback_hooks, hook_log, stored_decisions, stored_outcomes,
                  feedback_return>>

impactVars == <<impact_parsed_alert, similar_cases, impact_result>>

confidenceVars == <<log_evidence, confidence_cases, kb_articles, confidence_parsed,
                    evidence_summary, confidence_result>>

pipelineVars == <<pipeline_pc, pipeline_locals>>

queueVars == <<manager_instance, objects_created, manager_initialized, class_lock,
               thread_pc, thread_self, module_loaded, init_runs, issued_ids, requests,
               queue, active_requests, completed_requests, queue_return>>

analysisVars == <<recorded_decision, analysis_outcome, analysis_result>>

statusVars == <<request_lock, call_stack, status_return>>

vars == <<resolveVars, severityVars, feedbackVars, impactVars, confidenceVars, pipelineVars, queueVars, analysisVars, statusVars>>

\* what a call into one component leaves alone: the other components
othersThanResolve == <<severityVars, feedbackVars, impactVars, confidenceVars, pipelineVars, queueVars, analysisVars, statusVars>>

othersThanSeverity == <<resolveVars, feedbackVars, impactVars, confidenceVars, pipelineVars, queueVars, analysisVars, statusVars>>

othersThanFeedback == <<resolveVars, severityVars, impactVars, confidenceVars, pipelineVars, queueVars, analysisVars, statusVars>>

othersThanImpact == <<resolveVars, severityVars, feedbackVars, confidenceVars, pipelineVars, queueVars, analysisVars, statusVars>>

othersThanConfidence == <<resolveVars, severityVars, feedbackVars, impactVars, pipelineVars, queueVars, analysisVars, statusVars>>

\* the pipeline writes its decision records through the feedback recorder
othersThanPipeline == <<resolveVars, severityVars, impactVars, confidenceVars, queueVars, analysisVars, statusVars>>

othersThanQueue == <<resolveVars, severityVars, feedbackVars, impactVars, confidenceVars, pipelineVars, analysisVars, statusVars>>

othersThanAnalysis == <<resolveVars, severityVars, feedbackVars, impactVars, confidenceVars, pipelineVars, queueVars, statusVars>>

othersThanStatus == <<resolveVars, severityVars, feedbackVars, impactVars, confidenceVars, pipelineVars, queueVars, analysisVars>>

(***************************************************************************)
(* Python helpers                                                          *)
(***************************************************************************)
\* JSON null / Python None where a string is expected
NoneStr == "<None>"

EmptyDict == <<>>

Get(d, k, default) == IF k \in DOMAIN d THEN d[k] ELSE default

\* truthiness of an optional string
TruthyStr(s) == s # "" /\ s # NoneStr

\* Python `a or b` on optional strings
OrStr(a, b) == IF TruthyStr(a) THEN a ELSE b

\* a dict with at most the key k, its value drawn from Vals
OptField(k, Vals) == {EmptyDict} \cup {k :> v : v \in Vals}

(***************************************************************************)
(* Escalation Resolver: GPTAnalyzer._apply_enhanced_escalation_logic       *)
(***************************************************************************)
MaxConfidence == 100

GrayZoneLow == 30

GrayZoneHigh == 50

HighImpact == 70

\* the rule-5 text built from the advisory's reason
RecommendReason(gpt_reason) ==
    IF gpt_reason = "vendor fix required"
    THEN "It is recommended to escalate: vendor fix required"
    ELSE "It is recommended to escalate: "

\* RuleOf with the severity test moved behind the advisory rules
RuleOf_SeverityLast(confidence_score, impact_score, severity, gpt_escalate) ==
    IF impact_score >= HighImpact /\ confidence_score < GrayZoneHigh THEN 2
    ELSE IF GrayZoneLow <= confidence_score /\ confidence_score < GrayZoneHigh THEN 3
    ELSE IF confidence_score < GrayZoneLow THEN 4
    ELSE IF gpt_escalate /\ confidence_score >= GrayZoneHigh THEN 5
    ELSE IF severity \in {"Critical", "High"} THEN 1
    ELSE 6

\* RuleOf with the gray-zone test ahead of the high-impact test
RuleOf_GrayZoneFirst(confidence_score, impact_score, severity, gpt_escalate) ==
    IF severity \in {"Critical", "High"} THEN 1
    ELSE IF GrayZoneLow <= confidence_score /\ confidence_score < GrayZoneHigh THEN 3
    ELSE IF impact_score >= HighImpact /\ confidence_score < GrayZoneHigh THEN 2
    ELSE IF confidence_score < GrayZoneLow THEN 4
    ELSE IF gpt_escalate /\ confidence_score >= GrayZoneHigh THEN 5
    ELSE 6

\* RuleOf without the very-low-confidence branch
RuleOf_NoLowConfidenceRule(confidence_score, impact_score, severity, gpt_escalate) ==
    IF severity \in {"Critical", "High"} THEN 1
    ELSE IF impact_score >= HighImpact /\ confidence_score < GrayZoneHigh THEN 2
    ELSE IF GrayZoneLow <= confidence_score /\ confidence_score < GrayZoneHigh THEN 3
    ELSE IF gpt_escalate THEN 5
    ELSE 6

\* which branch of the if/elif chain is taken (1..6)
RuleOf(confidence_score, impact_score, severity, gpt_escalate) ==
    IF severity \in {"Critical", "High"} THEN 1
    ELSE IF impact_score >= HighImpact /\ confidence_score < GrayZoneHigh THEN 2
    ELSE IF GrayZoneLow <= confidence_score /\ confidence_score < GrayZoneHigh THEN 3
    ELSE IF confidence_score < GrayZoneLow THEN 4
    ELSE IF gpt_escalate /\ confidence_score >= GrayZoneHigh THEN 5
    ELSE 6

\* final_escalate as each branch assigns it
FinalEscalate(rule, gpt_escalate) ==
    CASE rule = 1 -> TRUE
      [] rule = 2 -> TRUE
      [] rule = 3 -> FALSE
      [] rule = 4 -> TRUE
      [] rule = 5 -> TRUE
      [] OTHER    -> gpt_escalate

\* FinalEscalateTo with the "Product Team" default applied in every branch
FinalEscalateTo_DefaultTeam(rule, gpt_escalate_to) ==
    CASE rule = 3 -> ""
      [] OTHER    -> OrStr(gpt_escalate_to, "Product Team")

\* final_escalate_to as each branch assigns it
FinalEscalateTo(rule, gpt_escalate_to) ==
    CASE rule \in {1, 2, 4} -> OrStr(gpt_escalate_to, "Product Team")
      [] rule = 3           -> ""
      [] OTHER              -> gpt_escalate_to

\* final_reason as each branch assigns it (the f-string templates, with the
\* interpolated numbers left as placeholders)
FinalReason(rule, gpt_reason) ==
    CASE rule = 1 -> "{severity} severity requires immediate escalation"
      [] rule = 2 -> "High impact ({impact_score}) with low confidence ({confidence_score}%) requires escalation"
      [] rule = 3 -> "Gray zone confidence ({confidence_score}%) - review required"
      [] rule = 4 -> "Very low confidence ({confidence_score}%) requires escalation"
      [] rule = 5 -> RecommendReason(gpt_reason)
      [] OTHER    -> OrStr(gpt_reason, "Standard processing based on {confidence_score}% confidence")

\* GptDecisionAfter without the write of the review flag
GptDecisionAfter_NoReviewFlag(ca, ia, sc, gd) == gd

\* the value of gpt_decision after the call (rule 3 writes needs_review into it)
GptDecisionAfter(ca, ia, sc, gd) ==
    LET rule == RuleOf(Get(ca, "overall_score", 0), Get(ia, "impact_score", 0),
                       Get(sc, "severity", "Unknown"), Get(gd, "escalate", FALSE))
    IN  IF rule = 3
        THEN [k \in DOMAIN gd \cup {"needs_review"} |->
                 IF k = "needs_review" THEN TRUE ELSE gd[k]]
        ELSE gd

\* the dict the call returns
ApplyEnhancedEscalationLogic(ca, ia, sc, gd) ==
    LET confidence_score == Get(ca, "overall_score", 0)
        impact_score     == Get(ia, "impact_score", 0)
        severity         == Get(sc, "severity", "Unknown")
        gpt_escalate     == Get(gd, "escalate", FALSE)
        gpt_escalate_to  == Get(gd, "escalate_to", "")
        gpt_reason       == Get(gd, "escalate_reason", "")
        rule             == RuleOf(confidence_score, impact_score, severity, gpt_escalate)
        gd2              == GptDecisionAfter(ca, ia, sc, gd)
        final_escalate   == FinalEscalate(rule, gpt_escalate)
    IN  [escalate         |-> final_escalate,
         escalate_to      |-> FinalEscalateTo(rule, gpt_escalate_to),
         escalate_reason  |-> FinalReason(rule, gpt_reason),
         needs_review     |-> Get(gd2, "needs_review", FALSE),
         escalation_logic |-> [confidence_score  |-> confidence_score,
                               impact_score      |-> impact_score,
                               severity          |-> severity,
                               ai_recommendation |-> gpt_escalate,
                               final_decision    |-> final_escalate]]

\* ---- argument values ---------------------------------------------------
ImpactSamples == {0, 40, 69, 70, 100}

ConfidenceAssessments == {EmptyDict} \cup {"overall_score" :> c : c \in 0..MaxConfidence}

ImpactAssessments == {EmptyDict} \cup {"impact_score" :> i : i \in ImpactSamples}

SeverityLevels == <<"Low", "Medium", "High", "Critical">>

SeverityClassifications ==
    {EmptyDict} \cup {"severity" :> SeverityLevels[i] : i \in 1..Len(SeverityLevels)}

\* what json.loads of the advisory answer can hold: any of the keys may be
\* missing ("{}" after a failed call), escalate_to may be null
AdvisoryDecisions ==
    {a @@ b @@ c : a \in OptField("escalate", BOOLEAN),
                   b \in OptField("escalate_to", {NoneStr, "Vessel Team"}),
                   c \in OptField("escalate_reason", {"vendor fix required"})}

ResolveInit ==
    /\ confidence_assessment \in ConfidenceAssessments
    /\ impact_assessment \in ImpactAssessments
    /\ severity_classification \in SeverityClassifications
    /\ gpt_decision \in AdvisoryDecisions
    /\ final_decision = EmptyDict
    /\ resolve_pc = "call"

\* one call of _apply_enhanced_escalation_logic
Resolve ==
    /\ resolve_pc = "call"
    /\ final_decision' = ApplyEnhancedEscalationLogic(confidence_assessment,
                             impact_assessment, severity_classification, gpt_decision)
    /\ gpt_decision' = GptDecisionAfter(confidence_assessment, impact_assessment,
                                        severity_classification, gpt_decision)
    /\ resolve_pc' = "returned"
    /\ UNCHANGED <<confidence_assessment, impact_assessment, severity_classification>>
    /\ UNCHANGED othersThanResolve

\* the caller drops the returned dict and binds the arguments of the next
\* call: one argument is replaced, the others are the objects of the call
\* before (so the advisory decision object may be passed again as it was left)
NextResolveCall ==
    /\ resolve_pc = "returned"
    /\ \/ /\ confidence_assessment' \in ConfidenceAssessments
          /\ UNCHANGED <<impact_assessment, severity_classification, gpt_decision>>
       \/ /\ impact_assessment' \in ImpactAssessments
          /\ UNCHANGED <<confidence_assessment, severity_classification, gpt_decision>>
       \/ /\ severity_classification' \in SeverityClassifications
          /\ UNCHANGED <<confidence_assessment, impact_assessment, gpt_decision>>
       \/ /\ gpt_decision' \in AdvisoryDecisions
          /\ UNCHANGED <<confidence_assessment, impact_assessment, severity_classification>>
    /\ final_decision' = EmptyDict
    /\ resolve_pc' = "call"
    /\ UNCHANGED othersThanResolve

ResolveNext == Resolve \/ NextResolveCall

(***************************************************************************)
(* Severity Classifier: SeverityClassifier.classify_severity               *)
(***************************************************************************)
\* Python None where a character string is expected (no string contains a
\* character "<None>", so it differs from every string)
PyNone == <<"<None>">>

Whitespace == {" ", "\n"}

TruthyChars(s) == s # PyNone /\ s # <<>>

\* str.startswith
StartsWith(s, prefix) == Len(prefix) <= Len(s) /\ SubSeq(s, 1, Len(prefix)) = prefix

\* s.split("_")[0]
FirstPart(s) ==
    LET cuts == {i \in 1..Len(s) : s[i] = "_"}
    IN  IF cuts = {} THEN s
        ELSE SubSeq(s, 1, (CHOOSE i \in cuts : \A j \in cuts : i <= j) - 1)

\* str.strip(): leading and trailing whitespace removed
Strip(s) ==
    LET keep == {i \in 1..Len(s) : s[i] \notin Whitespace}
    IN  IF keep = {} THEN <<>>
        ELSE SubSeq(s, CHOOSE i \in keep : \A j \in keep : i <= j,
                       CHOOSE i \in keep : \A j \in keep : i >= j)

\* self.severity_rules, in insertion order
severity_rules ==
    <<
       [pattern |-> <<"D", "B", "_", "C", "O", "N", "N", "_", "F", "A", "I", "L">>,
        severity |-> "Critical"],
       [pattern |-> <<"S", "Y", "S", "T", "E", "M", "_", "D", "O", "W", "N">>,
        severity |-> "Critical"],
       [pattern |-> <<"D", "A", "T", "A", "B", "A", "S", "E", "_", "L", "O", "C", "K">>,
        severity |-> "Critical"],
       [pattern |-> <<"M", "E", "M", "O", "R", "Y", "_", "E", "X", "H", "A", "U", "S", "T", "I", "O", "N">>,
        severity |-> "Critical"],
       [pattern |-> <<"V", "E", "S", "S", "E", "L", "_", "E", "R", "R", "_", "4">>,
        severity |-> "High"],
       [pattern |-> <<"V", "E", "S", "S", "E", "L", "_", "E", "R", "R", "_", "1">>,
        severity |-> "High"],
       [pattern |-> <<"V", "E", "S", "S", "E", "L", "_", "E", "R", "R", "_", "2">>,
        severity |-> "High"],
       [pattern |-> <<"V", "E", "S", "S", "E", "L", "_", "E", "R", "R", "_", "3">>,
        severity |-> "High"],
       [pattern |-> <<"C", "O", "N", "T", "A", "I", "N", "E", "R", "_", "E", "R", "R", "_", "1">>,
        severity |-> "High"],
       [pattern |-> <<"C", "O", "N", "T", "A", "I", "N", "E", "R", "_", "E", "R", "R", "_", "2">>,
        severity |-> "High"],
       [pattern |-> <<"E", "D", "I", "_", "E", "R", "R", "_", "1">>,
        severity |-> "High"],
       [pattern |-> <<"E", "D", "I", "_", "E", "R", "R", "_", "2">>,
        severity |-> "High"],
       [pattern |-> <<"A", "P", "I", "_", "T", "I", "M", "E", "O", "U", "T">>,
        severity |-> "Medium"],
       [pattern |-> <<"A", "P", "I", "_", "E", "R", "R", "_", "5", "0", "0">>,
        severity |-> "Medium"],
       [pattern |-> <<"A", "P", "I", "_", "E", "R", "R", "_", "5", "0", "2">>,
        severity |-> "Medium"],
       [pattern |-> <<"A", "P", "I", "_", "E", "R", "R", "_", "5", "0", "3">>,
        severity |-> "Medium"],
       [pattern |-> <<"E", "D", "I", "_", "T", "I", "M", "E", "O", "U", "T">>,
        severity |-> "Medium"],
       [pattern |-> <<"V", "E", "S", "S", "E", "L", "_", "E", "R", "R", "_", "5">>,
        severity |-> "Medium"],
       [pattern |-> <<"C", "O", "N", "T", "A", "I", "N", "E", "R", "_", "E", "R", "R", "_", "3">>,
        severity |-> "Medium"],
       [pattern |-> <<"A", "P", "I", "_", "L", "A", "T", "E", "N", "C", "Y", "_", "W", "A", "R", "N">>,
        severity |-> "Low"],
       [pattern |-> <<"L", "O", "G", "_", "W", "A", "R", "N">>,
        severity |-> "Low"],
       [pattern |-> <<"P", "E", "R", "F", "_", "W", "A", "R", "N">>,
        severity |-> "Low"],
       [pattern |-> <<"C", "A", "C", "H", "E", "_", "M", "I", "S", "S">>,
        severity |-> "Low"]
    >>

\* self.module_severity_modifiers.get(module, 0)
ModuleSeverityModifier(module) ==
    CASE module = "Database" -> 1
      [] module = "Vessel"   -> 0
      [] module = "Container" -> 0
      [] module = "EDI"      -> 0
      [] module = "API"      -> -1
      [] OTHER               -> 0

\* self.severity_levels
severity_levels == <<"Low", "Medium", "High", "Critical">>

\* the characters of a severity label
Spell(level) ==
    CASE level = "Low"      -> <<"L", "o", "w">>
      [] level = "Medium"   -> <<"M", "e", "d", "i", "u", "m">>
      [] level = "High"     -> <<"H", "i", "g", "h">>
      [] level = "Critical" -> <<"C", "r", "i", "t", "i", "c", "a", "l">>

LevelIndex(level) == CHOOSE i \in 1..Len(severity_levels) : severity_levels[i] = level

MaxInt(a, b) == IF a >= b THEN a ELSE b

MinInt(a, b) == IF a <= b THEN a ELSE b

\* _get_base_severity
GetBaseSeverity(pa) ==
    LET error_code == Get(pa, "error_code", <<>>)
        direct == {i \in 1..Len(severity_rules) : severity_rules[i].pattern = error_code}
        similar == {i \in 1..Len(severity_rules) :
                       StartsWith(error_code, FirstPart(severity_rules[i].pattern))}
        module == Get(pa, "module", "")
    IN  IF direct # {} THEN severity_rules[CHOOSE i \in direct : TRUE].severity
        ELSE IF TruthyChars(error_code) /\ similar # {}
             THEN severity_rules[CHOOSE i \in similar : \A j \in similar : i <= j].severity
        ELSE IF module \in {"Database", "System"} THEN "High"
        ELSE IF module \in {"Vessel", "Container"} THEN "Medium"
        ELSE "Low"

\* _apply_module_modifiers (indices are 1-based here)
ApplyModuleModifiers(base_severity, pa) ==
    LET modifier == ModuleSeverityModifier(Get(pa, "module", ""))
        new_index == MaxInt(1, MinInt(Len(severity_levels),
                                      LevelIndex(base_severity) + modifier))
    IN  IF modifier = 0 THEN base_severity ELSE severity_levels[new_index]

\* GPTAnalyzer._call_gpt: the answer of the chat client, or "{}" when the
\* client call raises (timeout, transport error, empty choices)
CallGpt(outcome) ==
    IF outcome.kind = "raise" THEN <<"{", "}">> ELSE outcome.content

\* the label a string of characters spells, for a caller that does not check it
LabelOf(s) ==
    IF \E i \in 1..Len(severity_levels) : Spell(severity_levels[i]) = s
    THEN severity_levels[CHOOSE i \in 1..Len(severity_levels) : Spell(severity_levels[i]) = s]
    ELSE "<not a severity level>"

\* _gpt_refine_severity returning the stripped answer unchecked
GptRefineSeverity_NoValidation(current_severity, outcome) ==
    LET response == CallGpt(outcome)
    IN  IF response = PyNone THEN current_severity ELSE LabelOf(Strip(response))

\* _gpt_refine_severity without the try/except around the call
GptRefineSeverity_NoExcept(current_severity, outcome) ==
    LET response == CallGpt(outcome)
        refined_severity == Strip(response)
    IN  IF response = PyNone THEN "<raise>"
        ELSE IF \E i \in 1..Len(severity_levels) : Spell(severity_levels[i]) = refined_severity
             THEN LabelOf(refined_severity)
        ELSE current_severity

\* _gpt_refine_severity: None.strip() raises AttributeError, caught by the
\* except branch; "<raise>" would be an exception leaving the method (none does)
GptRefineSeverity(current_severity, outcome) ==
    LET response == CallGpt(outcome)
        refined_severity == Strip(response)
    IN  IF response = PyNone THEN current_severity
        ELSE IF \E i \in 1..Len(severity_levels) : Spell(severity_levels[i]) = refined_severity
             THEN LabelOf(refined_severity)
        ELSE current_severity

\* _get_escalation_timeline
GetEscalationTimeline(severity) ==
    CASE severity = "Critical" -> "Immediate escalation"
      [] severity = "High"     -> "Escalate within 15 min"
      [] severity = "Medium"   -> "Log and monitor"
      [] severity = "Low"      -> "No escalation"
      [] OTHER                 -> "Log and monitor"

\* classify_severity(parsed_alert, impact_assessment, gpt_analyzer); has_analyzer
\* is the truth value of gpt_analyzer, outcome what its chat client does
ClassifySeverityCall(pa, has_analyzer, outcome) ==
    LET base_severity == GetBaseSeverity(pa)
        adjusted_severity == ApplyModuleModifiers(base_severity, pa)
        final_severity == IF has_analyzer
                          THEN GptRefineSeverity(adjusted_severity, outcome)
                          ELSE adjusted_severity
    IN  IF final_severity = "<raise>"
        THEN [status |-> "raised"]
        ELSE [status |-> "returned",
              severity |-> final_severity,
              base_severity |-> base_severity,
              adjusted_severity |-> adjusted_severity,
              classification_method |-> IF has_analyzer THEN "hybrid" ELSE "rule_based",
              escalation_timeline |-> GetEscalationTimeline(final_severity)]

\* ---- argument values ---------------------------------------------------
MaxPad == 1

\* whitespace strings of length <= n
Pads(n) == UNION {[1..k -> Whitespace] : k \in 0..n}

AnswerCores ==
    {Spell("Low"), Spell("Medium"), Spell("High"), Spell("Critical"),
     <<"U", "r", "g", "e", "n", "t">>, <<"h", "i", "g", "h">>, <<"H", "i", "g", "h", ".">>, <<"{", "}">>, <<>>}

\* what the chat client can do: raise, answer with no content, answer with text
ClientOutcomes ==
    {[kind |-> "raise", content |-> PyNone], [kind |-> "answer", content |-> PyNone]}
    \cup {[kind |-> "answer", content |-> l \o core \o r] :
             l \in Pads(MaxPad), core \in AnswerCores, r \in Pads(MaxPad)}

ErrorCodes ==
    {PyNone, <<>>, <<"D", "B", "_", "C", "O", "N", "N", "_", "F", "A", "I", "L">>, <<"V", "E", "S", "S", "E", "L", "_", "E", "R", "R", "_", "4">>, <<"V", "E", "S", "S", "E", "L", "_", "E", "R", "R", "_", "5">>, <<"V", "E", "S", "S", "E", "L", "_", "E", "R", "R", "_", "9">>, <<"A", "P", "I", "_", "L", "A", "T", "E", "N", "C", "Y", "_", "W", "A", "R", "N">>, <<"A", "P", "I", "X">>, <<"L", "O", "G", "_", "W", "A", "R", "N">>, <<"Z", "Z", "Z", "_", "1">>}

Modules == {NoneStr, "Database", "System", "Vessel", "Container", "EDI", "EDI/API", "API", "Unknown"}

SeverityAlerts ==
    {a @@ b : a \in OptField("error_code", ErrorCodes), b \in OptField("module", Modules)}

NoOutcome == [kind |-> "none", content |-> PyNone]

SeverityInit ==
    /\ parsed_alert \in SeverityAlerts
    /\ has_gpt_analyzer \in BOOLEAN
    /\ client_outcome = NoOutcome
    /\ severity_result = [status |-> "pending"]

\* one call of classify_severity; with an analyzer the chat client is called once
ClassifySeverity ==
    /\ severity_result.status = "pending"
    /\ \E outcome \in ClientOutcomes :
          /\ client_outcome' = IF has_gpt_analyzer THEN outcome ELSE NoOutcome
          /\ severity_result' = ClassifySeverityCall(parsed_alert, has_gpt_analyzer, outcome)
    /\ UNCHANGED <<parsed_alert, has_gpt_analyzer>>
    /\ UNCHANGED othersThanSeverity

\* the caller classifies the next alert
NextSeverityCall ==
    /\ severity_result.status # "pending"
    /\ parsed_alert' \in SeverityAlerts
    /\ has_gpt_analyzer' \in BOOLEAN
    /\ client_outcome' = NoOutcome
    /\ severity_result' = [status |-> "pending"]
    /\ UNCHANGED othersThanSeverity

SeverityNext == ClassifySeverity \/ NextSeverityCall

(***************************************************************************)
(* Learning Feedback Recorder: LearningFeedback                            *)
(***************************************************************************)
MaxClock == 1

MaxRecords == 2

MaxHooks == 1

LongResolutionMinutes == 60

\* f"fb_{incident_id}_{int(datetime.now().timestamp())}"
FeedbackId(incident_id, now) == [incident_id |-> incident_id, ts |-> now]

\* a resolution_time text as its whitespace-separated words; "" is <<>>
ContainsMin(resolution_time) ==
    \E i \in 1..Len(resolution_time) : resolution_time[i] \in {"min", "minutes"}

\* int(word): the number a word spells, -1 where int() raises ValueError
IntOf(word) ==
    CASE word = "45" -> 45
      [] word = "90" -> 90
      [] OTHER       -> -1

\* str.lower() of the resolved_by texts, and "specialist" in it
MentionsSpecialist(resolved_by) == resolved_by \in {"L2 specialist", "Vendor Specialist"}

\* decision_accuracy of _analyze_outcome
DecisionAccuracy(final_outcome) ==
    LET escalation_was_needed == Get(final_outcome, "escalation_was_needed", TRUE)
        success == Get(final_outcome, "success", TRUE)
    IN  IF escalation_was_needed /\ success THEN "correct_escalation"
        ELSE IF ~escalation_was_needed /\ success THEN "correct_no_escalation"
        ELSE IF escalation_was_needed /\ ~success THEN "incorrect_no_escalation"
        ELSE "incorrect_escalation"

\* whether _generate_learning_insights raises (int() of a non-number)
InsightsRaise(final_outcome) ==
    LET resolution_time == Get(final_outcome, "resolution_time", <<>>)
    IN  /\ resolution_time # <<>>
        /\ ContainsMin(resolution_time)
        /\ IntOf(resolution_time[1]) < 0

\* _generate_learning_insights
GenerateLearningInsights(decision_accuracy, final_outcome) ==
    LET resolution_time == Get(final_outcome, "resolution_time", <<>>)
        first ==
            CASE decision_accuracy = "correct_escalation" ->
                     <<"Escalation decision was appropriate and effective">>
              [] decision_accuracy = "correct_no_escalation" ->
                     <<"No escalation was the right choice">>
              [] decision_accuracy = "incorrect_no_escalation" ->
                     <<"Should have escalated - confidence/impact thresholds may be too high">>
              [] decision_accuracy = "incorrect_escalation" ->
                     <<"Escalation was unnecessary - thresholds may be too low">>
              [] OTHER -> <<>>
    IN  IF /\ resolution_time # <<>>
           /\ ContainsMin(resolution_time)
           /\ IntOf(resolution_time[1]) > LongResolutionMinutes
        THEN Append(first, "Resolution took longer than expected - consider escalation")
        ELSE first

\* _generate_improvement_suggestions
GenerateImprovementSuggestions(decision_accuracy, final_outcome) ==
    LET first ==
            CASE decision_accuracy = "incorrect_no_escalation" ->
                     <<"Lower confidence threshold for escalation",
                       "Increase impact score weight in decision">>
              [] decision_accuracy = "incorrect_escalation" ->
                     <<"Raise confidence threshold for escalation",
                       "Improve knowledge base coverage">>
              [] OTHER -> <<>>
    IN  IF MentionsSpecialist(Get(final_outcome, "resolved_by", ""))
        THEN Append(first, "Consider adding specialist escalation paths")
        ELSE first

\* _analyze_outcome (feedback_id is not used by it)
AnalyzeOutcome(feedback_id, final_outcome) ==
    LET decision_accuracy == DecisionAccuracy(final_outcome)
    IN  [decision_accuracy |-> decision_accuracy,
         escalation_effectiveness |->
             IF Get(final_outcome, "success", TRUE) THEN "effective" ELSE "ineffective",
         learning_insights |-> GenerateLearningInsights(decision_accuracy, final_outcome),
         improvement_suggestions |->
             GenerateImprovementSuggestions(decision_accuracy, final_outcome)]

\* ---- argument values ---------------------------------------------------
IncidentIds == {"INC-1", "INC-2"}

\* feedback ids a caller may present: those record_escalation_decision can
\* return, and one that it never returns
PresentableIds ==
    {FeedbackId(i, t) : i \in IncidentIds, t \in 0..MaxClock}
    \cup {FeedbackId("INC-9", 0)}

FinalOutcomes ==
    {a @@ b @@ c @@ e :
        a \in OptField("escalation_was_needed", {FALSE}),
        b \in OptField("success", {FALSE}),
        c \in OptField("resolution_time", {<<"45", "min">>, <<"90", "min">>, <<"few", "min">>}),
        e \in OptField("resolved_by", {"L2 specialist"})}

NoReturn == [op |-> "none"]

FeedbackInit ==
    /\ clock = 0
    /\ feedback_hooks = <<>>
    /\ hook_log = <<>>
    /\ stored_decisions = <<>>
    /\ stored_outcomes = <<>>
    /\ feedback_return = NoReturn

\* time passes
Tick ==
    /\ clock < MaxClock
    /\ clock' = clock + 1
    /\ UNCHANGED <<feedback_hooks, hook_log, stored_decisions, stored_outcomes,
                   feedback_return>>
    /\ UNCHANGED othersThanFeedback

\* add_feedback_hook
AddFeedbackHook ==
    /\ Len(feedback_hooks) < MaxHooks
    /\ feedback_hooks' = Append(feedback_hooks, "hook")
    /\ UNCHANGED <<clock, hook_log, stored_decisions, stored_outcomes, feedback_return>>
    /\ UNCHANGED othersThanFeedback

\* remove_feedback_hook
RemoveFeedbackHook ==
    /\ Len(feedback_hooks) > 0
    /\ feedback_hooks' = Tail(feedback_hooks)
    /\ UNCHANGED <<clock, hook_log, stored_decisions, stored_outcomes, feedback_return>>
    /\ UNCHANGED othersThanFeedback

\* record_escalation_decision: builds the record, hands it to the store and
\* to every registered hook, returns the feedback id
RecordEscalationDecision ==
    /\ Len(stored_decisions) < MaxRecords
    /\ \E incident_id \in IncidentIds, escalate \in BOOLEAN :
          LET feedback_id == FeedbackId(incident_id, clock)
              decision_record == [incident_id |-> incident_id,
                                  escalate |-> escalate,
                                  feedback_status |-> "pending",
                                  feedback_id |-> feedback_id]
          IN  /\ stored_decisions' = Append(stored_decisions, feedback_id)
              /\ hook_log' = hook_log \o [h \in 1..Len(feedback_hooks) |-> decision_record]
              /\ feedback_return' = [op |-> "record_escalation_decision",
                                     feedback_id |-> feedback_id,
                                     status |-> "recorded"]
    /\ UNCHANGED <<clock, feedback_hooks, stored_outcomes>>
    /\ UNCHANGED othersThanFeedback

\* record_resolution_outcome: analyses the outcome (which may raise), hands
\* the outcome record to the store, returns the analysis
RecordResolutionOutcome ==
    /\ Len(stored_outcomes) < MaxRecords
    /\ \E feedback_id \in PresentableIds, final_outcome \in FinalOutcomes :
          IF InsightsRaise(final_outcome)
          THEN /\ feedback_return' = [op |-> "record_resolution_outcome",
                                      feedback_id |-> feedback_id,
                                      status |-> "raised ValueError"]
               /\ UNCHANGED stored_outcomes
          ELSE /\ stored_outcomes' = Append(stored_outcomes, feedback_id)
               /\ feedback_return' = [op |-> "record_resolution_outcome",
                                      feedback_id |-> feedback_id,
                                      status |-> "outcome_recorded",
                                      learning_insights |->
                                          AnalyzeOutcome(feedback_id, final_outcome)]
    /\ UNCHANGED <<clock, feedback_hooks, hook_log, stored_decisions>>
    /\ UNCHANGED othersThanFeedback

FeedbackNext ==
    \/ Tick
    \/ AddFeedbackHook
    \/ RemoveFeedbackHook
    \/ RecordEscalationDecision
    \/ RecordResolutionOutcome

(***************************************************************************)
(* Impact Assessor: ImpactAssessor.calculate_impact_score                  *)
(* Relevance scores are counted in hundredths (0.7 is 70).  An alert text  *)
(* is the set of sentences it is made of.                                  *)
(***************************************************************************)
\* self.error_severity_map
error_severity_map ==
    <<
       [code |-> <<"D", "B", "_", "C", "O", "N", "N", "_", "F", "A", "I", "L">>,
        points |-> 40],
       [code |-> <<"V", "E", "S", "S", "E", "L", "_", "E", "R", "R", "_", "4">>,
        points |-> 40],
       [code |-> <<"C", "O", "N", "T", "A", "I", "N", "E", "R", "_", "E", "R", "R", "_", "1">>,
        points |-> 40],
       [code |-> <<"E", "D", "I", "_", "E", "R", "R", "_", "1">>,
        points |-> 40],
       [code |-> <<"V", "E", "S", "S", "E", "L", "_", "E", "R", "R", "_", "1">>,
        points |-> 35],
       [code |-> <<"V", "E", "S", "S", "E", "L", "_", "E", "R", "R", "_", "2">>,
        points |-> 35],
       [code |-> <<"V", "E", "S", "S", "E", "L", "_", "E", "R", "R", "_", "3">>,
        points |-> 35],
       [code |-> <<"C", "O", "N", "T", "A", "I", "N", "E", "R", "_", "E", "R", "R", "_", "2">>,
        points |-> 35],
       [code |-> <<"C", "O", "N", "T", "A", "I", "N", "E", "R", "_", "E", "R", "R", "_", "3">>,
        points |-> 35],
       [code |-> <<"E", "D", "I", "_", "E", "R", "R", "_", "2">>,
        points |-> 35],
       [code |-> <<"E", "D", "I", "_", "E", "R", "R", "_", "3">>,
        points |-> 35],
       [code |-> <<"A", "P", "I", "_", "T", "I", "M", "E", "O", "U", "T">>,
        points |-> 25],
       [code |-> <<"A", "P", "I", "_", "E", "R", "R", "_", "5", "0", "0">>,
        points |-> 25],
       [code |-> <<"A", "P", "I", "_", "E", "R", "R", "_", "5", "0", "2">>,
        points |-> 25],
       [code |-> <<"A", "P", "I", "_", "E", "R", "R", "_", "5", "0", "3">>,
        points |-> 25],
       [code |-> <<"E", "D", "I", "_", "T", "I", "M", "E", "O", "U", "T">>,
        points |-> 25],
       [code |-> <<"A", "P", "I", "_", "L", "A", "T", "E", "N", "C", "Y", "_", "W", "A", "R", "N">>,
        points |-> 10],
       [code |-> <<"L", "O", "G", "_", "W", "A", "R", "N">>,
        points |-> 5],
       [code |-> <<"P", "E", "R", "F", "_", "W", "A", "R", "N">>,
        points |-> 5]
    >>

\* self.module_criticality.get(module, 10)
ModuleCriticality_ZeroDefault(module) ==
    CASE module = "Vessel"    -> 25
      [] module = "Container" -> 20
      [] module = "EDI"       -> 15
      [] module = "API"       -> 10
      [] module = "Database"  -> 30
      [] module = "System"    -> 20
      [] OTHER                -> 0

ModuleCriticality(module) ==
    CASE module = "Vessel"    -> 25
      [] module = "Container" -> 20
      [] module = "EDI"       -> 15
      [] module = "API"       -> 10
      [] module = "Database"  -> 30
      [] module = "System"    -> 20
      [] OTHER                -> 10

\* self.customer_keywords
customer_keywords ==
    <<"customer reported", "customer service", "urgent", "cannot proceed",
      "blocking", "critical", "immediate", "asap", "emergency",
      "customer complaint", "customer impact", "business impact">>

\* self.transaction_keywords
transaction_keywords ==
    <<"unable to create", "failed to process", "transaction failed",
      "cannot complete", "blocked", "stuck", "timeout", "error",
      "vessel advice", "berth booking", "container booking">>

CustomerKeywordPoints == 5

CustomerCap == 20

TransactionKeywordPoints == 3

TransactionCap == 15

RecurrenceThreshold == 70

ImpactCap == 100

\* str.lower() of a sentence
LowerSentence(sentence) ==
    CASE sentence = "URGENT" -> "urgent"
      [] sentence = "Customer Reported a critical emergency, fix ASAP" -> "customer reported a critical emergency, fix asap"
      [] sentence = "vessel is blocking the berth" -> "vessel is blocking the berth"
      [] sentence = "Request Timeout" -> "request timeout"
      [] sentence = "Transaction Failed: errors on berth booking, job stuck and blocked" -> "transaction failed: errors on berth booking, job stuck and blocked"

\* the keywords of both lists that are substrings of a lower-case sentence
KeywordsWithin(lowered) ==
    CASE lowered = "urgent" ->
             {"urgent"}
      [] lowered = "customer reported a critical emergency, fix asap" ->
             {"customer reported", "critical", "asap", "emergency"}
      [] lowered = "vessel is blocking the berth" ->
             {"blocking"}
      [] lowered = "request timeout" ->
             {"timeout"}
      [] lowered = "transaction failed: errors on berth booking, job stuck and blocked" ->
             {"transaction failed", "blocked", "stuck", "error", "berth booking"}

\* alert_text.lower()
LowerText(text) == {LowerSentence(sentence) : sentence \in text}

\* keyword in alert_text
KeywordIn(keyword, lowered_text) == \E l \in lowered_text : keyword \in KeywordsWithin(l)

\* the keywords of a list found in the text, in list order
Matches(keywords, lowered_text) ==
    SelectSeq(keywords, LAMBDA keyword : KeywordIn(keyword, lowered_text))

\* _calculate_recurrence_impact
CalculateRecurrenceImpact(pa, cases) ==
    LET recent_cases == Len(SelectSeq(cases,
                            LAMBDA case : Get(case, "relevance_score", 0) > RecurrenceThreshold))
    IN  IF cases = <<>> THEN 0
        ELSE IF recent_cases >= 3 THEN 10
        ELSE IF recent_cases >= 2 THEN 7
        ELSE IF recent_cases >= 1 THEN 3
        ELSE 0

\* _classify_severity
ClassifyImpactSeverity_HigherTiers(impact_score) ==
    IF impact_score >= 90 THEN "Critical"
    ELSE IF impact_score >= 70 THEN "High"
    ELSE IF impact_score >= 40 THEN "Medium"
    ELSE "Low"

ClassifyImpactSeverity(impact_score) ==
    IF impact_score >= 70 THEN "Critical"
    ELSE IF impact_score >= 40 THEN "High"
    ELSE IF impact_score >= 20 THEN "Medium"
    ELSE "Low"

\* the returned impact_score without the cap
CappedTotal_NoCap(impact_score) == impact_score

\* min(impact_score, 100) of the returned dict
CappedTotal(impact_score) == MinInt(impact_score, ImpactCap)

\* calculate_impact_score(parsed_alert, log_evidence, similar_cases, kb_articles);
\* log_evidence and kb_articles are not read
CalculateImpactScore(pa, cases) ==
    LET error_code == Get(pa, "error_code", <<>>)
        hits == {i \in 1..Len(error_severity_map) : error_severity_map[i].code = error_code}
        error_impact == IF hits = {} THEN 0
                        ELSE error_severity_map[CHOOSE i \in hits : TRUE].points
        module_impact == ModuleCriticality(Get(pa, "module", ""))
        alert_text == LowerText(Get(pa, "alert_text", {}))
        customer_mentions == Matches(customer_keywords, alert_text)
        customer_impact == MinInt(CustomerKeywordPoints * Len(customer_mentions), CustomerCap)
        recurrence_impact == CalculateRecurrenceImpact(pa, cases)
        transaction_indicators == Matches(transaction_keywords, alert_text)
        transaction_impact == MinInt(TransactionKeywordPoints * Len(transaction_indicators),
                                     TransactionCap)
        impact_score == error_impact + module_impact + customer_impact
                        + recurrence_impact + transaction_impact
    IN  [impact_score |-> CappedTotal(impact_score),
         severity |-> ClassifyImpactSeverity(impact_score),
         breakdown |->
             [error_code_severity |-> [score |-> error_impact, max_score |-> 40],
              module_criticality  |-> [score |-> module_impact, max_score |-> 25],
              customer_mentions   |-> [score |-> customer_impact, max_score |-> 20,
                                       found |-> customer_mentions],
              recurrence          |-> [score |-> recurrence_impact, max_score |-> 10],
              transaction_context |-> [score |-> transaction_impact, max_score |-> 15,
                                       found |-> transaction_indicators]],
         total_factors |-> 5,
         max_possible_score |-> 110]

\* ---- argument values ---------------------------------------------------
MaxCases == 3

Sentences ==
    {"URGENT",
     "Customer Reported a critical emergency, fix ASAP",
     "vessel is blocking the berth",
     "Request Timeout",
     "Transaction Failed: errors on berth booking, job stuck and blocked"}

AlertTexts == SUBSET Sentences

ImpactErrorCodes ==
    {PyNone, <<"V", "E", "S", "S", "E", "L", "_", "E", "R", "R", "_", "4">>,
     <<"L", "O", "G", "_", "W", "A", "R", "N">>,
     <<"V", "E", "S", "S", "E", "L", "_", "E", "R", "R", "_", "9">>}

ImpactModules == {"Vessel", "Database", "Unknown"}

ImpactAlerts ==
    {a @@ b @@ c : a \in OptField("error_code", ImpactErrorCodes),
                   b \in OptField("module", ImpactModules),
                   c \in OptField("alert_text", AlertTexts)}

\* a historical case: found by keyword (with a relevance score) or by module
\* fallback (without one)
Cases == OptField("relevance_score", {RecurrenceThreshold, 90})

CaseLists == UNION {[1..n -> Cases] : n \in 0..MaxCases}

NoImpactResult == [status |-> "pending"]

ImpactInit ==
    /\ impact_parsed_alert \in ImpactAlerts
    /\ similar_cases \in CaseLists
    /\ impact_result = NoImpactResult

\* one call of calculate_impact_score
AssessImpact ==
    /\ impact_result = NoImpactResult
    /\ impact_result' = [status |-> "returned",
                         value |-> CalculateImpactScore(impact_parsed_alert, similar_cases)]
    /\ UNCHANGED <<impact_parsed_alert, similar_cases>>
    /\ UNCHANGED othersThanImpact

\* the dict d with the key k set as in the one-key dict f, or removed when f is empty
Rebind(d, k, f) ==
    [x \in (DOMAIN d \ {k}) \cup DOMAIN f |-> IF x \in DOMAIN f THEN f[x] ELSE d[x]]

\* the caller assesses the next alert: one field of the alert, or the list of
\* historical cases, differs from the call before
NextImpactCall ==
    /\ impact_result # NoImpactResult
    /\ \/ /\ \E f \in OptField("error_code", ImpactErrorCodes) :
                impact_parsed_alert' = Rebind(impact_parsed_alert, "error_code", f)
          /\ UNCHANGED similar_cases
       \/ /\ \E f \in OptField("module", ImpactModules) :
                impact_parsed_alert' = Rebind(impact_parsed_alert, "module", f)
          /\ UNCHANGED similar_cases
       \/ /\ \E f \in OptField("alert_text", AlertTexts) :
                impact_parsed_alert' = Rebind(impact_parsed_alert, "alert_text", f)
          /\ UNCHANGED similar_cases
       \/ /\ similar_cases' \in CaseLists
          /\ UNCHANGED impact_parsed_alert
    /\ impact_result' = NoImpactResult
    /\ UNCHANGED othersThanImpact

ImpactNext == AssessImpact \/ NextImpactCall

(***************************************************************************)
(* Confidence Assessor: GPTAnalyzer.generate_confidence_assessment         *)
(* Relevance scores are counted in hundredths (0.9 is 90).  The lists the   *)
(* code only measures with len() (log_evidence, evidence_summary) are       *)
(* their lengths.                                                           *)
(***************************************************************************)
\* int(relevance * 100): the product is a binary float, truncated toward zero
\* (0.29 * 100 is 28.999999999999996)
PercentOf(relevance) ==
    CASE relevance = 29 -> 28
      [] relevance = 57 -> 56
      [] relevance = 58 -> 57
      [] relevance \in 113..116 -> relevance - 1
      [] OTHER -> relevance

\* Factor 1: log evidence
LogPercentage(log_count) ==
    IF log_count > 0
    THEN IF log_count >= 5 THEN 100
         ELSE IF log_count >= 3 THEN 75
         ELSE IF log_count >= 1 THEN 50
         ELSE 25
    ELSE 0

\* Factor 2: similar past cases, by the first case of the list
CasePercentage(cases) ==
    IF Len(cases) > 0
    THEN LET best_relevance == Get(cases[1], "relevance_score", 0)
         IN  IF best_relevance > 0 THEN PercentOf(best_relevance) ELSE 40
    ELSE 0

\* the words 'Resolution' and 'Verification' that are substrings of a content
ProcedureWordsWithin(content) ==
    CASE content = "Resolution: release the berth lock. Verification: the vessel is scheduled" ->
             {"Resolution", "Verification"}
      [] content = "" -> {}

\* the error codes that are substrings of a title
CodesWithin(title) ==
    CASE title = "VESSEL_ERR_4: berth allocation conflict" -> {"VESSEL_ERR_4"}
      [] title = "" -> {}

\* kb_articles[:3]
FirstThree(articles) == SubSeq(articles, 1, MinInt(3, Len(articles)))

HasResolution(articles) ==
    \E i \in DOMAIN FirstThree(articles) :
        ProcedureWordsWithin(Get(articles[i], "content", "")) # {}

ErrorCodeMatch(articles, parsed) ==
    /\ TruthyStr(Get(parsed, "error_code", NoneStr))
    /\ \E i \in DOMAIN FirstThree(articles) :
           parsed["error_code"] \in CodesWithin(Get(articles[i], "title", ""))

\* Factor 3: knowledge base
KbPercentage(articles, parsed) ==
    IF Len(articles) > 0
    THEN LET best_kb_relevance == Get(articles[1], "relevance_score", 0)
         IN  IF ErrorCodeMatch(articles, parsed) /\ HasResolution(articles) THEN 100
             ELSE IF ErrorCodeMatch(articles, parsed) THEN 85
             ELSE IF best_kb_relevance > 0 THEN PercentOf(best_kb_relevance)
             ELSE IF HasResolution(articles) THEN 70
             ELSE 40
    ELSE 0

IdentifiersFound_CountsUnknown(parsed) ==
    (IF TruthyStr(Get(parsed, "entity_id", NoneStr)) THEN 1 ELSE 0)
    + (IF TruthyStr(Get(parsed, "error_code", NoneStr)) THEN 1 ELSE 0)
    + (IF TruthyStr(Get(parsed, "module", NoneStr)) THEN 1 ELSE 0)

IdentifiersFound(parsed) ==
    (IF TruthyStr(Get(parsed, "entity_id", NoneStr)) THEN 1 ELSE 0)
    + (IF TruthyStr(Get(parsed, "error_code", NoneStr)) THEN 1 ELSE 0)
    + (IF TruthyStr(Get(parsed, "module", NoneStr)) /\ parsed["module"] # "Unknown"
       THEN 1 ELSE 0)

\* Factor 4: int((identifiers_found / 3) * 100)
IdentifierPercentage(parsed) == (IdentifiersFound(parsed) * 100) \div 3

\* Factor 5: evidence quality
EvidencePercentage(evidence_count) ==
    IF evidence_count > 0
    THEN IF evidence_count >= 4 THEN 100
         ELSE IF evidence_count >= 3 THEN 75
         ELSE IF evidence_count >= 2 THEN 50
         ELSE 25
    ELSE 0

\* int(log*0.05 + case*0.15 + kb*0.40 + identifier*0.20 + evidence*0.20),
\* computed in hundredths
BaseConfidence_KbDouble(log, case, kb, identifier, evidence) ==
    (5 * log + 15 * case + 80 * kb + 20 * identifier + 20 * evidence) \div 100

BaseConfidence(log, case, kb, identifier, evidence) ==
    (5 * log + 15 * case + 40 * kb + 20 * identifier + 20 * evidence) \div 100

\* "HIGH" if score >= 70 else "MODERATE" if score >= 50 else "LOW", the score
\* in hundredths
ConfidenceLevel(score) ==
    IF score >= 7000 THEN "HIGH" ELSE IF score >= 5000 THEN "MODERATE" ELSE "LOW"

\* Recommendation with the ESCALATE tag up to the end of the gray zone
Recommendation_EscalateBelowFifty(total_score) ==
    IF total_score >= 70 THEN "PROCEED"
    ELSE IF total_score >= 50 THEN "PROCEED WITH CAUTION"
    ELSE "ESCALATE"

\* the recommendation tag of the assessment
Recommendation(total_score) ==
    IF total_score >= 70 THEN "PROCEED"
    ELSE IF total_score >= 50 THEN "PROCEED WITH CAUTION"
    ELSE IF total_score >= 30 THEN "INVESTIGATE FURTHER"
    ELSE "ESCALATE"

RecommendationDetail(total_score) ==
    IF total_score >= 70
    THEN "High confidence in both diagnosis and solution. Follow documented procedures carefully."
    ELSE IF total_score >= 50
    THEN "Moderate confidence. Verify each step and monitor results closely."
    ELSE IF total_score >= 30
    THEN "Limited evidence. Gather more information before proceeding."
    ELSE "Insufficient evidence for confident diagnosis or resolution."

PercentageStatus(percentage) ==
    IF percentage >= 90 THEN "excellent"
    ELSE IF percentage >= 70 THEN "good"
    ELSE IF percentage >= 50 THEN "moderate"
    ELSE IF percentage > 0 THEN "limited"
    ELSE "none"

GetDiagnosisExplanation(confidence_level, identifier, kb, log, evidence) ==
    IF confidence_level = "HIGH"
    THEN IF identifier = 100 /\ kb >= 85
         THEN "Error code and identifiers clearly defined with matching KB documentation. Diagnosis is highly reliable."
         ELSE IF kb >= 85
         THEN "Knowledge base provides clear documentation of this issue. High confidence in root cause identification."
         ELSE IF log >= 75 /\ evidence >= 75
         THEN "Strong log evidence and detailed analysis support the diagnosis."
         ELSE "Multiple evidence sources confirm the diagnosis with high confidence."
    ELSE IF confidence_level = "MODERATE"
    THEN IF kb >= 50
         THEN "Related documentation found. Diagnosis is reasonable but may need verification during resolution."
         ELSE "Some evidence supports diagnosis, but gaps exist. Verify findings during resolution."
    ELSE "Limited diagnostic evidence. Root cause identification requires further investigation."

GetSolutionExplanation(confidence_level, kb, case, evidence) ==
    IF confidence_level = "HIGH"
    THEN IF kb >= 85
         THEN "Detailed resolution procedure documented in knowledge base with specific steps. Follow documented guidelines carefully."
         ELSE IF kb >= 70 /\ evidence >= 70
         THEN "Clear resolution guidance available with strong supporting analysis. Solution approach is well-defined."
         ELSE IF case >= 75
         THEN "Proven solution from similar past cases. Resolution approach has worked before."
         ELSE "Good resolution guidance available from multiple sources."
    ELSE IF confidence_level = "MODERATE"
    THEN IF kb >= 50
         THEN "General resolution guidance available. May need adaptation based on specific circumstances. Proceed carefully and verify results."
         ELSE IF case >= 40
         THEN "Related solutions found in past cases. Resolution approach adapted from similar scenarios."
         ELSE "Some resolution guidance available, but may need adaptation. Proceed carefully and verify results."
    ELSE "Limited resolution guidance. Consider escalation or consult with senior engineers."

FactorEntry(percentage) ==
    [percentage |-> percentage, status |-> PercentageStatus(percentage)]

\* generate_confidence_assessment
GenerateConfidenceAssessment(log_count, cases, articles, parsed, evidence_count) ==
    LET log_percentage == LogPercentage(log_count)
        case_percentage == CasePercentage(cases)
        kb_percentage == KbPercentage(articles, parsed)
        identifier_percentage == IdentifierPercentage(parsed)
        evidence_percentage == EvidencePercentage(evidence_count)
        total_score == BaseConfidence(log_percentage, case_percentage, kb_percentage,
                                      identifier_percentage, evidence_percentage)
        diagnosis_confidence ==
            ConfidenceLevel(40 * identifier_percentage + 30 * kb_percentage
                            + 15 * log_percentage + 15 * evidence_percentage)
        solution_confidence ==
            ConfidenceLevel(60 * kb_percentage + 20 * case_percentage
                            + 20 * evidence_percentage)
    IN  [overall_score |-> total_score,
         breakdown |->
             [log_evidence |-> FactorEntry(log_percentage),
              past_cases |-> FactorEntry(case_percentage),
              knowledge_base |-> FactorEntry(kb_percentage),
              identifiers |-> FactorEntry(identifier_percentage),
              evidence_quality |-> FactorEntry(evidence_percentage)],
         interpretation |->
             [diagnosis_confidence |-> diagnosis_confidence,
              diagnosis_explanation |->
                  GetDiagnosisExplanation(diagnosis_confidence, identifier_percentage,
                                          kb_percentage, log_percentage, evidence_percentage),
              solution_confidence |-> solution_confidence,
              solution_explanation |->
                  GetSolutionExplanation(solution_confidence, kb_percentage,
                                         case_percentage, evidence_percentage),
              recommendation |-> Recommendation(total_score),
              recommendation_detail |-> RecommendationDetail(total_score)]]

\* ---- argument values ---------------------------------------------------
MaxBundle == 1

\* len(log_evidence) and len(evidence_summary) on both sides of every threshold
LogCounts == {0, 1, 3, 5}

EvidenceCounts == {0, 1, 2, 3, 4}

\* relevance scores in hundredths: below the range, inside it, above it
CaseRelevances == {-10, 29, 100, 150}

KbRelevances == {-10, 90}

ConfidenceCases == OptField("relevance_score", CaseRelevances)

\* no case, or the best match: the code reads similar_cases[0] only
ConfidenceCaseLists == {<<>>} \cup {<<c>> : c \in ConfidenceCases}

KbArticles ==
    {a @@ b @@ c :
        a \in OptField("relevance_score", KbRelevances),
        b \in OptField("content",
                       {"Resolution: release the berth lock. Verification: the vessel is scheduled"}),
        c \in OptField("title", {"VESSEL_ERR_4: berth allocation conflict"})}

KbArticleLists == UNION {[1..n -> KbArticles] : n \in 0..MaxBundle}

\* the article list of the next diagnosis: none, or one more article found
NextArticleLists(articles) ==
    {<<>>} \cup {Append(articles, a) : a \in {b \in KbArticles : Len(articles) < MaxBundle}}

ConfidenceAlerts ==
    {a @@ b @@ c : a \in OptField("entity_id", {"CMAU0000020"}),
                   b \in OptField("error_code", {NoneStr, "VESSEL_ERR_4"}),
                   c \in OptField("module", {"Unknown", "Vessel"})}

NoConfidenceResult == [status |-> "pending"]

ConfidenceInit ==
    /\ log_evidence \in LogCounts
    /\ confidence_cases \in ConfidenceCaseLists
    /\ kb_articles \in KbArticleLists
    /\ confidence_parsed \in ConfidenceAlerts
    /\ evidence_summary \in EvidenceCounts
    /\ confidence_result = NoConfidenceResult

\* one call of generate_confidence_assessment
AssessConfidence ==
    /\ confidence_result = NoConfidenceResult
    /\ confidence_result' =
           [status |-> "returned",
            value |-> GenerateConfidenceAssessment(log_evidence, confidence_cases,
                                                   kb_articles, confidence_parsed,
                                                   evidence_summary)]
    /\ UNCHANGED <<log_evidence, confidence_cases, kb_articles, confidence_parsed,
                   evidence_summary>>
    /\ UNCHANGED othersThanConfidence

\* the caller assesses the next diagnosis: one argument differs from the call
\* before
NextConfidenceCall ==
    /\ confidence_result # NoConfidenceResult
    /\ \/ /\ log_evidence' \in LogCounts
          /\ UNCHANGED <<confidence_cases, kb_articles, confidence_parsed, evidence_summary>>
       \/ /\ confidence_cases' \in ConfidenceCaseLists
          /\ UNCHANGED <<log_evidence, kb_articles, confidence_parsed, evidence_summary>>
       \/ /\ kb_articles' \in NextArticleLists(kb_articles)
          /\ UNCHANGED <<log_evidence, confidence_cases, confidence_parsed, evidence_summary>>
       \/ /\ confidence_parsed' \in ConfidenceAlerts
          /\ UNCHANGED <<log_evidence, confidence_cases, kb_articles, evidence_summary>>
       \/ /\ evidence_summary' \in EvidenceCounts
          /\ UNCHANGED <<log_evidence, confidence_cases, kb_articles, confidence_parsed>>
    /\ confidence_result' = NoConfidenceResult
    /\ UNCHANGED othersThanConfidence

ConfidenceNext == AssessConfidence \/ NextConfidenceCall

(***************************************************************************)
(* Escalation pipeline: GPTAnalyzer.get_enhanced_escalation_decision       *)
(* One incident runs the seven steps of the method in program order; an    *)
(* exception in a step ends the call.  pipeline_locals holds the           *)
(* parameters and the local variables bound so far.                        *)
(***************************************************************************)
\* the steps of the method body, in program order
PipelineSteps_RecordBeforeJustification ==
    <<"impact", "severity", "metadata", "resolution", "resolve", "record", "justify">>

PipelineSteps ==
    <<"impact", "severity", "metadata", "resolution", "resolve", "justify", "record">>

\* where control is after a step has returned
Following(step) ==
    LET i == CHOOSE j \in 1..Len(PipelineSteps) : PipelineSteps[j] = step
    IN  IF i = Len(PipelineSteps) THEN "returned" ELSE PipelineSteps[i + 1]

\* the locals with one more name bound
Bind(locals, name, value) ==
    [k \in DOMAIN locals \cup {name} |-> IF k = name THEN value ELSE locals[k]]

\* str(n) of a small natural number
DecimalOf(n) ==
    CASE n = 0 -> "0" [] n = 1 -> "1" [] n = 2 -> "2" [] n = 3 -> "3" [] n = 4 -> "4"
      [] n = 5 -> "5" [] n = 6 -> "6" [] n = 7 -> "7" [] n = 8 -> "8" [] n = 9 -> "9"

\* parsed.get("ticket_id", f"inc_{int(time.time())}")
IncidentIdOf(parsed, now) == Get(parsed, "ticket_id", "inc_" \o DecimalOf(now))

\* _generate_structured_metadata: the fields computed from the alert, the
\* cases and the three assessments
GenerateStructuredMetadata(parsed, ca, ia, sc, cases) ==
    [incident_id |-> Get(parsed, "ticket_id", "unknown"),
     module |-> Get(parsed, "module", ""),
     past_case_similarity |->
         IF Len(cases) > 0 THEN Get(cases[1], "relevance_score", 0) ELSE 0,
     impact_score |-> Get(ia, "impact_score", 0),
     confidence_score |-> Get(ca, "overall_score", 0),
     risk_level |-> Get(sc, "severity", "Unknown"),
     severity |-> Get(sc, "severity", "Unknown"),
     recurrence_rate |-> Len(cases)]

\* the dict _get_gpt_resolution_with_metadata returns when the answer is not JSON
DefaultResolution ==
    [escalate |-> TRUE,
     escalate_to |-> "Product Team",
     escalate_reason |-> "Unable to determine resolution automatically"]

\* what the resolution step can end with: the JSON object of the answer ({}
\* when the client raised and _call_gpt answered "{}"), the default of the
\* JSONDecodeError handler, or the TypeError of json.loads(None)
ResolutionOutcomes ==
    {[kind |-> "json", value |-> v] :
        v \in {EmptyDict, "escalate" :> FALSE,
               ("escalate" :> TRUE) @@ ("escalate_to" :> "Vessel Team")}}
    \cup {[kind |-> "json", value |-> DefaultResolution],
          [kind |-> "raise", value |-> EmptyDict]}

\* JustificationEngine.generate_justification: the decision summary
GenerateJustification(escalation_decision, ca, ia, sc) ==
    [decision_summary |->
        [escalate |-> Get(escalation_decision, "escalate", FALSE),
         escalate_to |-> Get(escalation_decision, "escalate_to", "None"),
         primary_reason |-> Get(escalation_decision, "escalate_reason", ""),
         confidence_score |-> Get(ca, "overall_score", 0),
         impact_score |-> Get(ia, "impact_score", 0),
         severity |-> Get(sc, "severity", "Unknown")]]

\* ---- argument values ---------------------------------------------------
PipelineAlerts ==
    {a @@ b @@ c @@ t :
        a \in {"error_code" :> e :
                  e \in {<<"V", "E", "S", "S", "E", "L", "_", "E", "R", "R", "_", "4">>,
                         <<"L", "O", "G", "_", "W", "A", "R", "N">>}},
        b \in OptField("module", {"Vessel"}),
        c \in OptField("alert_text", {{"URGENT"}}),
        t \in OptField("ticket_id", {"INC-1"})}

PipelineConfidences == {"overall_score" :> c : c \in {20, 40, 90}}

PipelineCaseLists == {<<>>, <<"relevance_score" :> 90>>}

\* the chat client during the severity refinement
PipelineClientOutcomes ==
    {[kind |-> "raise", content |-> PyNone],
     [kind |-> "answer", content |-> Spell("Critical")],
     [kind |-> "answer", content |-> <<"U", "r", "g", "e", "n", "t">>]}

PipelineInit ==
    /\ pipeline_pc = "idle"
    /\ pipeline_locals = EmptyDict

\* the caller, holding the confidence assessment of the diagnosis, calls
\* get_enhanced_escalation_decision
CallPipeline ==
    /\ pipeline_pc \in {"idle", "returned", "raised"}
    /\ Len(stored_decisions) < MaxRecords
    /\ \E parsed \in PipelineAlerts, ca \in PipelineConfidences, cases \in PipelineCaseLists :
          pipeline_locals' = [parsed |-> parsed, confidence_assessment |-> ca,
                              similar_cases |-> cases]
    /\ pipeline_pc' = PipelineSteps[1]
    /\ UNCHANGED feedbackVars
    /\ UNCHANGED othersThanPipeline

\* Step 1: impact_assessor.calculate_impact_score
StepImpact ==
    /\ pipeline_pc = "impact"
    /\ pipeline_locals' =
           Bind(pipeline_locals, "impact_assessment",
                CalculateImpactScore(pipeline_locals.parsed, pipeline_locals.similar_cases))
    /\ pipeline_pc' = Following("impact")
    /\ UNCHANGED feedbackVars
    /\ UNCHANGED othersThanPipeline

\* Step 2: severity_classifier.classify_severity, with the analyzer passed
StepSeverity ==
    /\ pipeline_pc = "severity"
    /\ \E outcome \in PipelineClientOutcomes :
          LET r == ClassifySeverityCall(pipeline_locals.parsed, TRUE, outcome)
          IN  IF r.status = "raised"
              THEN /\ pipeline_pc' = "raised"
                   /\ UNCHANGED pipeline_locals
              ELSE /\ pipeline_locals' =
                          Bind(pipeline_locals, "severity_classification",
                               [k \in DOMAIN r \ {"status"} |-> r[k]])
                   /\ pipeline_pc' = Following("severity")
    /\ UNCHANGED feedbackVars
    /\ UNCHANGED othersThanPipeline

\* Step 3: _generate_structured_metadata
StepMetadata ==
    /\ pipeline_pc = "metadata"
    /\ pipeline_locals' =
           Bind(pipeline_locals, "structured_metadata",
                GenerateStructuredMetadata(pipeline_locals.parsed,
                                           pipeline_locals.confidence_assessment,
                                           pipeline_locals.impact_assessment,
                                           pipeline_locals.severity_classification,
                                           pipeline_locals.similar_cases))
    /\ pipeline_pc' = Following("metadata")
    /\ UNCHANGED feedbackVars
    /\ UNCHANGED othersThanPipeline

\* Step 4: _get_gpt_resolution_with_metadata
StepResolution ==
    /\ pipeline_pc = "resolution"
    /\ \E outcome \in ResolutionOutcomes :
          IF outcome.kind = "raise"
          THEN /\ pipeline_pc' = "raised"
               /\ UNCHANGED pipeline_locals
          ELSE /\ pipeline_locals' =
                      Bind(pipeline_locals, "resolution_decision", outcome.value)
               /\ pipeline_pc' = Following("resolution")
    /\ UNCHANGED feedbackVars
    /\ UNCHANGED othersThanPipeline

\* Step 5: _apply_enhanced_escalation_logic, which also writes the review
\* flag into the advisory decision it was given
StepResolve ==
    /\ pipeline_pc = "resolve"
    /\ LET ca == pipeline_locals.confidence_assessment
           ia == pipeline_locals.impact_assessment
           sc == pipeline_locals.severity_classification
           gd == pipeline_locals.resolution_decision
       IN  pipeline_locals' =
               Bind(Bind(pipeline_locals, "final_escalation_decision",
                         ApplyEnhancedEscalationLogic(ca, ia, sc, gd)),
                    "resolution_decision", GptDecisionAfter(ca, ia, sc, gd))
    /\ pipeline_pc' = Following("resolve")
    /\ UNCHANGED feedbackVars
    /\ UNCHANGED othersThanPipeline

\* Step 6: justification_engine.generate_justification
StepJustify ==
    /\ pipeline_pc = "justify"
    /\ pipeline_locals' =
           Bind(pipeline_locals, "justification",
                GenerateJustification(pipeline_locals.final_escalation_decision,
                                      pipeline_locals.confidence_assessment,
                                      pipeline_locals.impact_assessment,
                                      pipeline_locals.severity_classification))
    /\ pipeline_pc' = Following("justify")
    /\ UNCHANGED feedbackVars
    /\ UNCHANGED othersThanPipeline

\* Step 7: learning_feedback.record_escalation_decision under the ticket id
\* of the alert, or under inc_<now>
StepRecord ==
    /\ pipeline_pc = "record"
    /\ LET incident_id == IncidentIdOf(pipeline_locals.parsed, clock)
           feedback_id == FeedbackId(incident_id, clock)
           decision_record ==
               [incident_id |-> incident_id,
                escalate |-> Get(pipeline_locals.final_escalation_decision,
                                 "escalate", FALSE),
                feedback_status |-> "pending",
                feedback_id |-> feedback_id]
       IN  /\ stored_decisions' = Append(stored_decisions, feedback_id)
           /\ hook_log' = hook_log \o [h \in 1..Len(feedback_hooks) |-> decision_record]
           /\ feedback_return' = [op |-> "record_escalation_decision",
                                  feedback_id |-> feedback_id,
                                  status |-> "recorded"]
           /\ pipeline_locals' = Bind(pipeline_locals, "incident_id", incident_id)
    /\ pipeline_pc' = Following("record")
    /\ UNCHANGED <<clock, feedback_hooks, stored_outcomes>>
    /\ UNCHANGED othersThanPipeline

PipelineNext ==
    \/ CallPipeline
    \/ StepImpact
    \/ StepSeverity
    \/ StepMetadata
    \/ StepResolution
    \/ StepResolve
    \/ StepJustify
    \/ StepRecord
    \/ Tick

(***************************************************************************)
(* Request tracker: RequestQueueManager                                    *)
(* Request ids (uuid4 strings) are the numbers 1, 2, ... in the order of    *)
(* their creation; 0 is an id that was never issued.  Objects are numbered  *)
(* in the order of their allocation; 0 is None.  Every method body runs     *)
(* under request_lock and is one step; __new__ and __init__ hold no lock    *)
(* around their tests and are taken test by test.                           *)
(***************************************************************************)
MaxRequests == 2

MaxCompleted == 1

MaxThreads == 2

max_concurrent == 3

max_completed_history == 20

\* thread 0 imports the module (and runs its last line, the construction of
\* queue_manager); the others start once the module is loaded
Threads == 0..MaxThreads


\* DiagnosticRequest.__init__
NewRequest == [status |-> "queued", started |-> FALSE]

\* list.remove(x) when x is in the list: the first occurrence goes
RemoveFirst(list, x) ==
    LET i == CHOOSE j \in 1..Len(list) :
                 list[j] = x /\ \A k \in 1..(j - 1) : list[k] # x
    IN  SubSeq(list, 1, i - 1) \o SubSeq(list, i + 1, Len(list))

Contains(list, x) == \E i \in 1..Len(list) : list[i] = x

\* if x in list: list.remove(x)
Without(list, x) == IF Contains(list, x) THEN RemoveFirst(list, x) ELSE list

\* the dict with one key removed
DelKey(dict, key) == [k \in DOMAIN dict \ {key} |-> dict[k]]

\* the dict with one key set
SetKey(dict, key, value) ==
    [k \in DOMAIN dict \cup {key} |-> IF k = key THEN value ELSE dict[k]]

\* the test of start_processing that turns a request away
AtCapacity_OffByOne(active) == Len(active) > max_concurrent

AtCapacity(active) == Len(active) >= max_concurrent

\* the test `if self._initialized` of __init__
AlreadyInitialized_Never(flag) == FALSE

AlreadyInitialized(flag) == flag = "True"

\* the class attributes, the construction in progress in each thread
singletonVars == <<manager_instance, objects_created, manager_initialized, class_lock,
                   thread_pc, thread_self, module_loaded, init_runs>>

\* the attributes of the manager, the ids issued, the outcome of the last call
trackerVars == <<issued_ids, requests, queue, active_requests, completed_requests,
                 queue_return>>

NoQueueReturn == [op |-> "none", id |-> 0, value |-> "None"]

\* create_request
CreateRequest ==
    /\ module_loaded
    /\ Cardinality(issued_ids) < MaxRequests
    /\ LET request_id == Cardinality(issued_ids) + 1
       IN  /\ issued_ids' = issued_ids \cup {request_id}
           /\ requests' = SetKey(requests, request_id, NewRequest)
           /\ queue' = Append(queue, request_id)
           /\ queue_return' = [op |-> "create_request", id |-> request_id,
                               value |-> "id"]
    /\ UNCHANGED <<active_requests, completed_requests>>
    /\ UNCHANGED singletonVars
    /\ UNCHANGED othersThanQueue

\* start_processing
StartProcessing ==
    /\ module_loaded
    /\ \E request_id \in issued_ids \cup {0} :
          /\ queue_return' = [op |-> "start_processing", id |-> request_id,
                              value |-> IF request_id \notin DOMAIN requests
                                           \/ AtCapacity(active_requests)
                                        THEN "False" ELSE "True"]
          /\ IF request_id \notin DOMAIN requests
             THEN UNCHANGED <<requests, queue, active_requests>>
             ELSE IF AtCapacity(active_requests)
             THEN /\ queue' = IF Contains(Without(queue, request_id), request_id)
                              THEN Without(queue, request_id)
                              ELSE <<request_id>> \o Without(queue, request_id)
                  /\ UNCHANGED <<requests, active_requests>>
             ELSE /\ queue' = Without(queue, request_id)
                  /\ active_requests' = Append(active_requests, request_id)
                  /\ requests' = SetKey(requests, request_id,
                                        [status |-> "processing", started |-> TRUE])
    /\ UNCHANGED <<issued_ids, completed_requests>>
    /\ UNCHANGED singletonVars
    /\ UNCHANGED othersThanQueue

\* complete_request
CompleteRequest ==
    /\ module_loaded
    /\ Len(completed_requests) < MaxCompleted
    /\ \E request_id \in issued_ids \cup {0} :
          /\ queue_return' = [op |-> "complete_request", id |-> request_id,
                              value |-> "None"]
          /\ IF request_id \notin DOMAIN requests
             THEN UNCHANGED <<requests, active_requests, completed_requests>>
             ELSE LET completed == Append(completed_requests, request_id)
                      marked == SetKey(requests, request_id,
                                       [status |-> "completed",
                                        started |-> requests[request_id].started])
                  IN  /\ active_requests' = Without(active_requests, request_id)
                      /\ IF Len(completed) > max_completed_history
                         THEN /\ completed_requests' = Tail(completed)
                              /\ requests' = DelKey(marked, Head(completed))
                         ELSE /\ completed_requests' = completed
                              /\ requests' = marked
    /\ UNCHANGED <<issued_ids, queue>>
    /\ UNCHANGED singletonVars
    /\ UNCHANGED othersThanQueue

\* fail_request
FailRequest ==
    /\ module_loaded
    /\ \E request_id \in issued_ids \cup {0} :
          /\ queue_return' = [op |-> "fail_request", id |-> request_id,
                              value |-> "None"]
          /\ IF request_id \notin DOMAIN requests
             THEN UNCHANGED <<requests, queue, active_requests>>
             ELSE /\ requests' = SetKey(requests, request_id,
                                        [status |-> "failed",
                                         started |-> requests[request_id].started])
                  /\ active_requests' = Without(active_requests, request_id)
                  /\ queue' = Without(queue, request_id)
    /\ UNCHANGED <<issued_ids, completed_requests>>
    /\ UNCHANGED singletonVars
    /\ UNCHANGED othersThanQueue

\* ---- RequestQueueManager() -------------------------------------------
SetPc(t, pc) == [thread_pc EXCEPT ![t] = pc]

\* a thread may run code of the module once thread 0 has imported it
MayRun(t) == t = 0 \/ module_loaded

\* __new__: if cls._instance is None (outside the lock)
NewTest(t) ==
    /\ MayRun(t)
    /\ thread_pc[t] = "idle"
    /\ thread_pc' = SetPc(t, IF manager_instance = 0 THEN "new_acquire" ELSE "new_return")
    /\ UNCHANGED <<manager_instance, objects_created, manager_initialized, class_lock,
                   thread_self, module_loaded, init_runs>>
    /\ UNCHANGED trackerVars
    /\ UNCHANGED othersThanQueue

\* __new__: with cls._lock
NewAcquire(t) ==
    /\ thread_pc[t] = "new_acquire"
    /\ class_lock = 0
    /\ class_lock' = t + 1
    /\ thread_pc' = SetPc(t, "new_locked")
    /\ UNCHANGED <<manager_instance, objects_created, manager_initialized,
                   thread_self, module_loaded, init_runs>>
    /\ UNCHANGED trackerVars
    /\ UNCHANGED othersThanQueue

\* __new__: if cls._instance is None (under the lock), cls._instance = super().__new__(cls)
NewLockedTest(t) ==
    /\ thread_pc[t] = "new_locked"
    /\ IF manager_instance = 0
       THEN /\ objects_created' = objects_created + 1
            /\ manager_instance' = objects_created + 1
            /\ thread_pc' = SetPc(t, "new_allocated")
       ELSE /\ thread_pc' = SetPc(t, "new_release")
            /\ UNCHANGED <<manager_instance, objects_created>>
    /\ UNCHANGED <<manager_initialized, class_lock, thread_self, module_loaded, init_runs>>
    /\ UNCHANGED trackerVars
    /\ UNCHANGED othersThanQueue

\* __new__: cls._instance._initialized = False
NewMarkUninitialized(t) ==
    /\ thread_pc[t] = "new_allocated"
    /\ manager_initialized' = "False"
    /\ thread_pc' = SetPc(t, "new_release")
    /\ UNCHANGED <<manager_instance, objects_created, class_lock, thread_self,
                   module_loaded, init_runs>>
    /\ UNCHANGED trackerVars
    /\ UNCHANGED othersThanQueue

\* __new__: the with block ends
NewRelease(t) ==
    /\ thread_pc[t] = "new_release"
    /\ class_lock' = 0
    /\ thread_pc' = SetPc(t, "new_return")
    /\ UNCHANGED <<manager_instance, objects_created, manager_initialized,
                   thread_self, module_loaded, init_runs>>
    /\ UNCHANGED trackerVars
    /\ UNCHANGED othersThanQueue

\* __new__: return cls._instance
NewReturn(t) ==
    /\ thread_pc[t] = "new_return"
    /\ thread_self' = [thread_self EXCEPT ![t] = manager_instance]
    /\ thread_pc' = SetPc(t, "init_test")
    /\ UNCHANGED <<manager_instance, objects_created, manager_initialized, class_lock,
                   module_loaded, init_runs>>
    /\ UNCHANGED trackerVars
    /\ UNCHANGED othersThanQueue

\* __init__: if self._initialized: return (AttributeError while the
\* attribute is not set yet)
InitTest(t) ==
    /\ thread_pc[t] = "init_test"
    /\ thread_pc' = SetPc(t, IF manager_initialized = "unset" THEN "raised"
                             ELSE IF AlreadyInitialized(manager_initialized) THEN "done"
                             ELSE "init_body")
    /\ UNCHANGED <<manager_instance, objects_created, manager_initialized, class_lock,
                   thread_self, module_loaded, init_runs>>
    /\ UNCHANGED trackerVars
    /\ UNCHANGED othersThanQueue

\* __init__: the attributes are bound to new empty collections
InitBody(t) ==
    /\ thread_pc[t] = "init_body"
    /\ requests' = EmptyDict
    /\ active_requests' = <<>>
    /\ queue' = <<>>
    /\ completed_requests' = <<>>
    /\ init_runs' = init_runs + 1
    /\ thread_pc' = SetPc(t, "init_flag")
    /\ UNCHANGED <<manager_instance, objects_created, manager_initialized, class_lock,
                   thread_self, module_loaded>>
    /\ UNCHANGED <<issued_ids, queue_return>>
    /\ UNCHANGED othersThanQueue

\* __init__: self._initialized = True
InitFlag(t) ==
    /\ thread_pc[t] = "init_flag"
    /\ manager_initialized' = "True"
    /\ thread_pc' = SetPc(t, "done")
    /\ UNCHANGED <<manager_instance, objects_created, class_lock, thread_self,
                   module_loaded, init_runs>>
    /\ UNCHANGED trackerVars
    /\ UNCHANGED othersThanQueue

\* the construction returns its object to the caller; the first one, of
\* thread 0, binds queue_manager and ends the import of the module
Constructed(t) ==
    /\ thread_pc[t] = "done"
    /\ thread_pc' = SetPc(t, "idle")
    /\ module_loaded' = TRUE
    /\ UNCHANGED <<manager_instance, objects_created, manager_initialized, class_lock,
                   thread_self, init_runs>>
    /\ UNCHANGED trackerVars
    /\ UNCHANGED othersThanQueue

Construct(t) ==
    \/ NewTest(t)
    \/ NewAcquire(t)
    \/ NewLockedTest(t)
    \/ NewMarkUninitialized(t)
    \/ NewRelease(t)
    \/ NewReturn(t)
    \/ InitTest(t)
    \/ InitBody(t)
    \/ InitFlag(t)
    \/ Constructed(t)

\* the module is being imported: the class exists, its last line is about
\* to run in thread 0
SingletonInit ==
    /\ manager_instance = 0
    /\ objects_created = 0
    /\ manager_initialized = "unset"
    /\ class_lock = 0
    /\ thread_pc = [t \in Threads |-> "idle"]
    /\ thread_self = [t \in Threads |-> 0]
    /\ module_loaded = FALSE
    /\ init_runs = 0
    /\ issued_ids = {}
    /\ requests = EmptyDict
    /\ queue = <<>>
    /\ active_requests = <<>>
    /\ completed_requests = <<>>
    /\ queue_return = NoQueueReturn

\* constructions in every thread, and requests created in between
SingletonNext ==
    \/ \E t \in Threads : Construct(t)
    \/ CreateRequest

\* the module is imported: queue_manager is constructed and initialised
QueueInit ==
    /\ manager_instance = 1
    /\ objects_created = 1
    /\ manager_initialized = "True"
    /\ class_lock = 0
    /\ thread_pc = [t \in Threads |-> "idle"]
    /\ thread_self = [t \in Threads |-> IF t = 0 THEN 1 ELSE 0]
    /\ module_loaded = TRUE
    /\ init_runs = 1
    /\ issued_ids = {}
    /\ requests = EmptyDict
    /\ queue = <<>>
    /\ active_requests = <<>>
    /\ completed_requests = <<>>
    /\ queue_return = NoQueueReturn

QueueNext ==
    \/ CreateRequest
    \/ StartProcessing
    \/ CompleteRequest
    \/ FailRequest

(***************************************************************************)
(* Outcome analysis: LearningFeedback._analyze_outcome                     *)
(* One decision is on record (the escalate flag that                       *)
(* record_escalation_decision copied into its decision record), and        *)
(* record_resolution_outcome is called with the feedback id of that record *)
(* and a final outcome.                                                    *)
(***************************************************************************)
\* escalation_decision.get("escalate", False) of the decision record
RecordedDecisions == [escalate : BOOLEAN]

NoAnalysis == [status |-> "pending"]

AnalysisInit ==
    /\ recorded_decision \in RecordedDecisions
    /\ analysis_outcome \in FinalOutcomes
    /\ analysis_result = NoAnalysis

\* the call of _analyze_outcome inside record_resolution_outcome
Analyze ==
    /\ analysis_result = NoAnalysis
    /\ analysis_result' =
           IF InsightsRaise(analysis_outcome)
           THEN [status |-> "raised ValueError"]
           ELSE [status |-> "returned",
                 value |-> AnalyzeOutcome(FeedbackId("INC-1", 0), analysis_outcome)]
    /\ UNCHANGED <<recorded_decision, analysis_outcome>>
    /\ UNCHANGED othersThanAnalysis

\* the next incident: another decision on record, or one field of the final
\* outcome differs
NextAnalysisCall ==
    /\ analysis_result # NoAnalysis
    /\ \/ /\ recorded_decision' \in RecordedDecisions
          /\ UNCHANGED analysis_outcome
       \/ /\ \E k \in {"escalation_was_needed", "success", "resolution_time", "resolved_by"} :
                \E o \in FinalOutcomes :
                   analysis_outcome' =
                       Rebind(analysis_outcome, k,
                              [x \in DOMAIN o \cap {k} |-> o[x]])
          /\ UNCHANGED recorded_decision
    /\ analysis_result' = NoAnalysis
    /\ UNCHANGED othersThanAnalysis

AnalysisNext == Analyze \/ NextAnalysisCall

(***************************************************************************)
(* Request tracker, status queries: get_position, get_estimated_wait,      *)
(* get_status, get_request_status                                          *)
(* One thread calls the methods of the manager one after the other.  A     *)
(* status query runs statement by statement: call_stack holds the frames   *)
(* of the query in progress, request_lock is the threading.Lock of the     *)
(* manager, which does not know its owner: acquire() waits while the lock  *)
(* is held, by whichever thread.  The tracker has no clock: every          *)
(* processing time is 0 seconds.                                           *)
(***************************************************************************)
StatusMethods == {"get_position", "get_estimated_wait", "get_status", "get_request_status"}

DefaultProcessingTime == 15

MinimumWait == 5

\* a frame that has not yet entered `with self.request_lock`
CallFrame(method, request_id) ==
    [method |-> method, request_id |-> request_id, pc |-> "acquire", acc |-> EmptyDict]

Top == call_stack[Len(call_stack)]

\* list.index(x) + 1
IndexOf(list, x) == CHOOSE j \in 1..Len(list) : list[j] = x /\ \A k \in 1..(j - 1) : list[k] # x

\* the body of get_position
PositionOf(request_id) ==
    IF Contains(active_requests, request_id) THEN 0
    ELSE IF Contains(queue, request_id) THEN IndexOf(queue, request_id)
    ELSE -1

\* completed_requests[-5:]
LastFive(list) == SubSeq(list, MaxInt(1, Len(list) - 4), Len(list))

\* the body of _get_average_processing_time
AverageProcessingTime ==
    LET recent == LastFive(completed_requests)
        times == SelectSeq(recent, LAMBDA rid : rid \in DOMAIN requests)
    IN  IF completed_requests = <<>> \/ times = <<>> THEN DefaultProcessingTime ELSE 0

\* the last lines of get_estimated_wait
EstimatedWait(position, avg_time) ==
    LET requests_ahead == position - 1 + Len(active_requests)
        estimated == (avg_time * requests_ahead) \div MaxInt(max_concurrent, 1)
    IN  MaxInt(estimated, MinimumWait)

\* the dict get_status returns
StatusDict(avg_time) ==
    [active_count |-> Len(active_requests),
     queue_length |-> Len(queue),
     max_concurrent |-> max_concurrent,
     average_processing_time |-> avg_time,
     is_busy |-> Len(active_requests) >= max_concurrent]

\* what the statement a frame is at does: it returns a value, or it calls a
\* method of the manager and goes on at `then` when that call has returned
Returns(value) == [kind |-> "return", value |-> value]

Calls(method, request_id, then) ==
    [kind |-> "call", method |-> method, request_id |-> request_id, then |-> then]

StatementOf(f) ==
    CASE f.method = "get_position" ->
             Returns(PositionOf(f.request_id))
      [] f.method = "_get_average_processing_time" ->
             Returns(AverageProcessingTime)
      [] f.method = "get_estimated_wait" /\ f.pc = "body" ->
             Calls("get_position", f.request_id, "have_position")
      [] f.method = "get_estimated_wait" /\ f.pc = "have_position" ->
             IF f.acc["get_position"] \in {0, -1}
             THEN Returns(0)
             ELSE Calls("_get_average_processing_time", 0, "have_average")
      [] f.method = "get_estimated_wait" /\ f.pc = "have_average" ->
             Returns(EstimatedWait(f.acc["get_position"],
                                   f.acc["_get_average_processing_time"]))
      [] f.method = "get_status" /\ f.pc = "body" ->
             Calls("_get_average_processing_time", 0, "have_average")
      [] f.method = "get_status" /\ f.pc = "have_average" ->
             Returns(StatusDict(f.acc["_get_average_processing_time"]))
      [] f.method = "get_request_status" /\ f.pc = "body" ->
             IF f.request_id \notin DOMAIN requests
             THEN Returns(NoneStr)
             ELSE Calls("get_position", f.request_id, "have_position")
      [] f.method = "get_request_status" /\ f.pc = "have_position" ->
             Calls("get_estimated_wait", f.request_id, "have_wait")
      [] f.method = "get_request_status" /\ f.pc = "have_wait" ->
             Calls("get_status", 0, "have_status")
      [] f.method = "get_request_status" /\ f.pc = "have_status" ->
             Returns([status |-> requests[f.request_id].status,
                      position |-> f.acc["get_position"],
                      estimated_wait |-> f.acc["get_estimated_wait"],
                      queue_status |-> f.acc["get_status"]])

NoStatusReturn == [op |-> "none", id |-> 0, status |-> "none"]

StatusInit ==
    /\ request_lock = 0
    /\ call_stack = <<>>
    /\ status_return = NoStatusReturn

\* the thread calls a status method of the manager
CallStatusMethod ==
    /\ module_loaded
    /\ call_stack = <<>>
    /\ \E method \in StatusMethods :
          \E request_id \in (IF method = "get_status" THEN {0} ELSE issued_ids \cup {0}) :
             /\ call_stack' = <<CallFrame(method, request_id)>>
             /\ status_return' = [op |-> method, id |-> request_id, status |-> "running"]
    /\ UNCHANGED request_lock
    /\ UNCHANGED othersThanStatus

\* with self.request_lock: the frame enters when the lock is free
AcquireRequestLock ==
    /\ call_stack # <<>>
    /\ Top.pc = "acquire"
    /\ request_lock = 0
    /\ request_lock' = 1
    /\ call_stack' = [call_stack EXCEPT ![Len(call_stack)].pc = "body"]
    /\ UNCHANGED status_return
    /\ UNCHANGED othersThanStatus

\* the next statement of the frame on top, inside its `with` block: a call of
\* another method pushes a frame; a return leaves the `with` block (which
\* releases the lock) and hands the value to the frame below, or to the
\* thread when there is none
RunStatement ==
    /\ call_stack # <<>>
    /\ Top.pc # "acquire"
    /\ LET f == Top
           n == Len(call_stack)
           effect == StatementOf(f)
       IN  IF effect.kind = "call"
           THEN /\ call_stack' =
                       Append([call_stack EXCEPT ![n].pc = effect.then],
                              CallFrame(effect.method, effect.request_id))
                /\ UNCHANGED <<request_lock, status_return>>
           ELSE /\ request_lock' = 0
                /\ IF n > 1
                   THEN /\ call_stack' =
                               [SubSeq(call_stack, 1, n - 1) EXCEPT
                                   ![n - 1].acc = SetKey(@, f.method, effect.value)]
                        /\ UNCHANGED status_return
                   ELSE /\ call_stack' = <<>>
                        /\ status_return' = [op |-> f.method, id |-> f.request_id,
                                             status |-> "returned",
                                             value |-> effect.value]
    /\ UNCHANGED othersThanStatus

\* a method that changes the tracker runs between two status queries; it
\* takes and releases request_lock within its step
TrackerCall ==
    /\ call_stack = <<>>
    /\ request_lock = 0
    /\ \/ CreateRequest
       \/ StartProcessing
       \/ CompleteRequest
       \/ FailRequest

StatusNext ==
    \/ TrackerCall
    \/ CallStatusMethod
    \/ AcquireRequestLock
    \/ RunStatement

(***************************************************************************)
(* Confidence assessment handed to the Escalation Resolver                 *)
(* The caller assesses the confidence of a diagnosis and passes the dict   *)
(* it got, as it is, to _apply_enhanced_escalation_logic together with an  *)
(* impact assessment, a severity classification and an advisory decision.  *)
(***************************************************************************)
\* the evidence of one diagnosis: nothing found, or the best match
HandedCaseLists == {<<>>, <<"relevance_score" :> 100>>}

HandedArticleLists ==
    {<<>>,
     <<[relevance_score |-> 90,
        content |-> "Resolution: release the berth lock. Verification: the vessel is scheduled",
        title |-> "VESSEL_ERR_4: berth allocation conflict"]>>}

HandedAlerts ==
    {EmptyDict,
     [entity_id |-> "CMAU0000020", error_code |-> "VESSEL_ERR_4", module |-> "Vessel"]}

AgreementInit ==
    /\ log_evidence = 0
    /\ confidence_cases = <<>>
    /\ kb_articles = <<>>
    /\ confidence_parsed = EmptyDict
    /\ evidence_summary = 0
    /\ confidence_result = NoConfidenceResult
    /\ confidence_assessment = EmptyDict
    /\ impact_assessment = EmptyDict
    /\ severity_classification = EmptyDict
    /\ gpt_decision = EmptyDict
    /\ final_decision = EmptyDict
    /\ resolve_pc = "idle"

\* the caller binds the arguments of _apply_enhanced_escalation_logic: the
\* confidence assessment is the dict generate_confidence_assessment returned
HandOver ==
    /\ confidence_result.status = "returned"
    /\ resolve_pc = "idle"
    /\ confidence_assessment' = confidence_result.value
    /\ impact_assessment' \in ImpactAssessments
    /\ severity_classification' \in SeverityClassifications
    /\ gpt_decision' \in AdvisoryDecisions
    /\ resolve_pc' = "call"
    /\ UNCHANGED final_decision
    /\ UNCHANGED confidenceVars
    /\ UNCHANGED <<severityVars, feedbackVars, impactVars, pipelineVars, queueVars,
                   analysisVars, statusVars>>

\* the next diagnosis: one part of the evidence differs
NextDiagnosis ==
    /\ resolve_pc = "returned"
    /\ \/ /\ log_evidence' \in LogCounts
          /\ UNCHANGED <<confidence_cases, kb_articles, confidence_parsed, evidence_summary>>
       \/ /\ confidence_cases' \in HandedCaseLists
          /\ UNCHANGED <<log_evidence, kb_articles, confidence_parsed, evidence_summary>>
       \/ /\ kb_articles' \in HandedArticleLists
          /\ UNCHANGED <<log_evidence, confidence_cases, confidence_parsed, evidence_summary>>
       \/ /\ confidence_parsed' \in HandedAlerts
          /\ UNCHANGED <<log_evidence, confidence_cases, kb_articles, evidence_summary>>
       \/ /\ evidence_summary' \in EvidenceCounts
          /\ UNCHANGED <<log_evidence, confidence_cases, kb_articles, confidence_parsed>>
    /\ confidence_result' = NoConfidenceResult
    /\ confidence_assessment' = EmptyDict
    /\ impact_assessment' = EmptyDict
    /\ severity_classification' = EmptyDict
    /\ gpt_decision' = EmptyDict
    /\ final_decision' = EmptyDict
    /\ resolve_pc' = "idle"
    /\ UNCHANGED <<severityVars, feedbackVars, impactVars, pipelineVars, queueVars,
                   analysisVars, statusVars>>

AgreementNext == AssessConfidence \/ HandOver \/ Resolve \/ NextDiagnosis

(***************************************************************************)
(* Specifications: one per component, the other components idle            *)
(***************************************************************************)
ResolveIdle ==
    /\ confidence_assessment = EmptyDict
    /\ impact_assessment = EmptyDict
    /\ severity_classification = EmptyDict
    /\ gpt_decision = EmptyDict
    /\ final_decision = EmptyDict
    /\ resolve_pc = "idle"

SeverityIdle ==
    /\ parsed_alert = EmptyDict
    /\ has_gpt_analyzer = FALSE
    /\ client_outcome = NoOutcome
    /\ severity_result = [status |-> "idle"]

FeedbackIdle ==
    /\ clock = 0
    /\ feedback_hooks = <<>>
    /\ hook_log = <<>>
    /\ stored_decisions = <<>>
    /\ stored_outcomes = <<>>
    /\ feedback_return = NoReturn

ImpactIdle ==
    /\ impact_parsed_alert = EmptyDict
    /\ similar_cases = <<>>
    /\ impact_result = [status |-> "idle"]

ConfidenceIdle ==
    /\ log_evidence = 0
    /\ confidence_cases = <<>>
    /\ kb_articles = <<>>
    /\ confidence_parsed = EmptyDict
    /\ evidence_summary = 0
    /\ confidence_result = [status |-> "idle"]

PipelineIdle ==
    /\ pipeline_pc = "idle"
    /\ pipeline_locals = EmptyDict

QueueIdle ==
    /\ manager_instance = 0
    /\ objects_created = 0
    /\ manager_initialized = "unset"
    /\ class_lock = 0
    /\ thread_pc = [t \in Threads |-> "idle"]
    /\ thread_self = [t \in Threads |-> 0]
    /\ module_loaded = FALSE
    /\ init_runs = 0
    /\ issued_ids = {}
    /\ requests = EmptyDict
    /\ queue = <<>>
    /\ active_requests = <<>>
    /\ completed_requests = <<>>
    /\ queue_return = NoQueueReturn

AnalysisIdle ==
    /\ recorded_decision = [escalate |-> FALSE]
    /\ analysis_outcome = EmptyDict
    /\ analysis_result = [status |-> "idle"]

StatusIdle ==
    /\ request_lock = 0
    /\ call_stack = <<>>
    /\ status_return = [op |-> "none", id |-> 0, status |-> "idle"]

InitResolve == ResolveInit /\ SeverityIdle /\ FeedbackIdle /\ ImpactIdle /\ ConfidenceIdle /\ PipelineIdle /\ QueueIdle /\ AnalysisIdle /\ StatusIdle

SpecResolve == InitResolve /\ [][ResolveNext]_vars

InitSeverity == SeverityInit /\ ResolveIdle /\ FeedbackIdle /\ ImpactIdle /\ ConfidenceIdle /\ PipelineIdle /\ QueueIdle /\ AnalysisIdle /\ StatusIdle

SpecSeverity == InitSeverity /\ [][SeverityNext]_vars

InitFeedback == FeedbackInit /\ ResolveIdle /\ SeverityIdle /\ ImpactIdle /\ ConfidenceIdle /\ PipelineIdle /\ QueueIdle /\ AnalysisIdle /\ StatusIdle

SpecFeedback == InitFeedback /\ [][FeedbackNext]_vars

InitImpact == ImpactInit /\ ResolveIdle /\ SeverityIdle /\ FeedbackIdle /\ ConfidenceIdle /\ PipelineIdle /\ QueueIdle /\ AnalysisIdle /\ StatusIdle

SpecImpact == InitImpact /\ [][ImpactNext]_vars

InitConfidence == ConfidenceInit /\ ResolveIdle /\ SeverityIdle /\ FeedbackIdle /\ ImpactIdle /\ PipelineIdle /\ QueueIdle /\ AnalysisIdle /\ StatusIdle

SpecConfidence == InitConfidence /\ [][ConfidenceNext]_vars

InitPipeline == PipelineInit /\ ResolveIdle /\ SeverityIdle /\ FeedbackIdle /\ ImpactIdle /\ ConfidenceIdle /\ QueueIdle /\ AnalysisIdle /\ StatusIdle

SpecPipeline == InitPipeline /\ [][PipelineNext]_vars

InitQueue == QueueInit /\ ResolveIdle /\ SeverityIdle /\ FeedbackIdle /\ ImpactIdle /\ ConfidenceIdle /\ PipelineIdle /\ AnalysisIdle /\ StatusIdle

SpecQueue == InitQueue /\ [][QueueNext]_vars

InitSingleton == SingletonInit /\ ResolveIdle /\ SeverityIdle /\ FeedbackIdle /\ ImpactIdle /\ ConfidenceIdle /\ PipelineIdle /\ AnalysisIdle /\ StatusIdle

SpecSingleton == InitSingleton /\ [][SingletonNext]_vars

InitAnalysis == AnalysisInit /\ ResolveIdle /\ SeverityIdle /\ FeedbackIdle /\ ImpactIdle /\ ConfidenceIdle /\ PipelineIdle /\ QueueIdle /\ StatusIdle

SpecAnalysis == InitAnalysis /\ [][AnalysisNext]_vars

InitStatus == StatusInit /\ QueueInit /\ ResolveIdle /\ SeverityIdle /\ FeedbackIdle /\ ImpactIdle /\ ConfidenceIdle /\ PipelineIdle /\ AnalysisIdle

SpecStatus == InitStatus /\ [][StatusNext]_vars

\* the calling thread keeps running: a statement that can run does run
SpecStatusLive ==
    SpecStatus /\ WF_vars(AcquireRequestLock) /\ WF_vars(RunStatement)

InitAgreement == AgreementInit /\ SeverityIdle /\ FeedbackIdle /\ ImpactIdle /\ PipelineIdle /\ QueueIdle /\ AnalysisIdle /\ StatusIdle

SpecAgreement == InitAgreement /\ [][AgreementNext]_vars

(***************************************************************************)
(* Properties of the Escalation Resolver                                   *)
(***************************************************************************)
ResolveReturned == resolve_pc = "returned"

ArgConfidence == Get(confidence_assessment, "overall_score", 0)

ArgImpact == Get(impact_assessment, "impact_score", 0)

ArgSeverity == Get(severity_classification, "severity", "Unknown")

ArgAdvisoryEscalate == Get(gpt_decision, "escalate", FALSE)

ArgAdvisoryTarget == Get(gpt_decision, "escalate_to", "")

SevereArg == ArgSeverity \in {"Critical", "High"}

\* C1: whenever the classified severity is Critical or High, the returned
\* decision has escalate = true, whatever the confidence, the impact and the
\* advisory decision are.
C1_SevereAlwaysEscalates ==
    (ResolveReturned /\ SevereArg) => final_decision.escalate = TRUE

\* severity High, confidence 90, advisory says do not escalate: escalated
C1_Witness ==
    /\ ResolveReturned
    /\ ArgSeverity = "High"
    /\ ArgConfidence = 90
    /\ "escalate" \in DOMAIN gpt_decision /\ gpt_decision.escalate = FALSE
    /\ final_decision.escalate = TRUE

\* C2: gray zone: confidence in [30,50), severity not Critical/High and
\* impact < 70 give needs_review = true and escalate = false for every
\* advisory decision.
C2_GrayZone ==
    (/\ ResolveReturned
     /\ GrayZoneLow <= ArgConfidence /\ ArgConfidence < GrayZoneHigh
     /\ ~SevereArg
     /\ ArgImpact < HighImpact)
    => (final_decision.needs_review = TRUE /\ final_decision.escalate = FALSE)

\* a gray-zone call whose advisory asked for escalation
C2_Witness ==
    /\ ResolveReturned
    /\ ArgConfidence = 30
    /\ ArgSeverity = "Medium"
    /\ ArgImpact = 69
    /\ ArgAdvisoryEscalate = TRUE
    /\ final_decision.needs_review = TRUE
    /\ final_decision.escalate = FALSE

\* C3: first matching rule wins: severity not Critical/High, impact >= 70
\* and confidence < 50 (also inside [30,50)) escalate by rule 2, ahead of
\* the gray-zone rule.
C3_HighImpactBeforeGrayZone ==
    (/\ ResolveReturned
     /\ ~SevereArg
     /\ ArgImpact >= HighImpact
     /\ ArgConfidence < GrayZoneHigh)
    => final_decision.escalate = TRUE

\* impact 70 inside the gray-zone band, advisory against escalation
C3_Witness ==
    /\ ResolveReturned
    /\ ArgSeverity = "Low"
    /\ ArgImpact = 70
    /\ ArgConfidence = 49
    /\ ArgAdvisoryEscalate = FALSE
    /\ final_decision.escalate = TRUE
    /\ final_decision.escalate_reason =
           "High impact ({impact_score}) with low confidence ({confidence_score}%) requires escalation"

\* C4: every confidence below 30 escalates, whatever the severity, the
\* impact and the advisory decision are.
C4_VeryLowConfidenceEscalates ==
    (ResolveReturned /\ ArgConfidence < GrayZoneLow) => final_decision.escalate = TRUE

\* confidence 29, nothing else asks for escalation, advisory says no
C4_Witness ==
    /\ ResolveReturned
    /\ ArgConfidence = 29
    /\ ArgSeverity = "Low"
    /\ ArgImpact = 0
    /\ "escalate" \in DOMAIN gpt_decision /\ gpt_decision.escalate = FALSE
    /\ final_decision.escalate = TRUE

\* C5: with confidence >= 50 and severity not Critical/High the decision
\* follows the advisory: same escalate flag and same target team, for every
\* impact score.
C5_FollowsAdvisory ==
    (ResolveReturned /\ ArgConfidence >= GrayZoneHigh /\ ~SevereArg)
    => (/\ final_decision.escalate = ArgAdvisoryEscalate
        /\ final_decision.escalate_to = ArgAdvisoryTarget)

\* an advisory escalation without a target, at high impact, is passed on as is
C5_Witness ==
    /\ ResolveReturned
    /\ ArgConfidence = 50
    /\ ArgSeverity = "Medium"
    /\ ArgImpact = 100
    /\ ArgAdvisoryEscalate = TRUE
    /\ "escalate_to" \notin DOMAIN gpt_decision
    /\ final_decision.escalate = TRUE
    /\ final_decision.escalate_to = ""

\* C13: a call of _apply_enhanced_escalation_logic modifies none of its
\* inputs: the advisory decision object is the same after the call as before,
\* and so are the confidence, impact and severity arguments, for every rule.
C13_ResolveLeavesInputsAlone ==
    [][Resolve => UNCHANGED <<confidence_assessment, impact_assessment,
                              severity_classification, gpt_decision>>]_vars

\* the branch of the if/elif chain the call that returned has taken (the call
\* leaves the escalate key of the advisory decision alone)
RuleTaken == RuleOf(ArgConfidence, ArgImpact, ArgSeverity, ArgAdvisoryEscalate)

\* C25: needs_review is true in a returned decision only when the gray-zone
\* rule fired in that call (confidence in [30,50), severity not
\* Critical/High, not impact >= 70), also when the advisory decision object
\* of an earlier call is passed again.
C25_ReviewOnlyInGrayZone ==
    (ResolveReturned /\ final_decision.needs_review = TRUE)
    => (/\ RuleTaken = 3
        /\ GrayZoneLow <= ArgConfidence /\ ArgConfidence < GrayZoneHigh
        /\ ~SevereArg
        /\ ArgImpact < HighImpact
        /\ final_decision.escalate = FALSE)

\* C26: whenever the returned decision has escalate = true, its target team
\* is a non-empty string, for every rule and every advisory decision.
C26_EscalationHasTarget ==
    (ResolveReturned /\ final_decision.escalate = TRUE)
    => TruthyStr(final_decision.escalate_to)

(***************************************************************************)
(* Properties of the Severity Classifier                                   *)
(***************************************************************************)
SeverityReturned == severity_result.status = "returned"

CanonicalSeverities == {severity_levels[i] : i \in 1..Len(severity_levels)}

CanonicalSpellings == {Spell(l) : l \in CanonicalSeverities}

\* the refiner was asked and answered with a string
RefinerAnswered ==
    /\ has_gpt_analyzer
    /\ client_outcome.kind = "answer"
    /\ client_outcome.content # PyNone

RefinementFailed ==
    /\ has_gpt_analyzer
    /\ \/ client_outcome.kind = "raise"
       \/ client_outcome.kind = "answer" /\ client_outcome.content = PyNone
       \/ client_outcome.kind = "answer" /\ client_outcome.content = <<>>

\* C7: when the refinement call fails, classify_severity still returns, with
\* the pre-refinement value as final severity; nothing is raised to the caller.
C7_RefinementFailureFallsBack ==
    RefinementFailed =>
        /\ SeverityReturned
        /\ severity_result.severity = severity_result.adjusted_severity

\* the client answered without content while the rules said High
C7_Witness ==
    /\ has_gpt_analyzer
    /\ client_outcome.kind = "answer" /\ client_outcome.content = PyNone
    /\ SeverityReturned
    /\ severity_result.adjusted_severity = "High"
    /\ severity_result.severity = "High"

(***************************************************************************)
(* Properties of the Learning Feedback Recorder                            *)
(***************************************************************************)
\* the feedback ids record_escalation_decision has returned so far
RecordedIds == {stored_decisions[i] : i \in 1..Len(stored_decisions)}

ImpactReturned == impact_result.status = "returned"

\* the sum of the five factor scores of the returned breakdown
BreakdownSum ==
    LET b == impact_result.value.breakdown
    IN  b.error_code_severity.score + b.module_criticality.score
        + b.customer_mentions.score + b.recurrence.score + b.transaction_context.score

\* C10: the impact score returned by calculate_impact_score is an integer in
\* [0,100] for every error code, module, alert text and list of cases.
C10_ImpactScoreInRange ==
    ImpactReturned => impact_result.value.impact_score \in 0..ImpactCap

\* the five factors add up to more than 100 and the returned score is 100
C10_Witness ==
    /\ ImpactReturned
    /\ BreakdownSum > ImpactCap
    /\ impact_result.value.impact_score = ImpactCap

\* the factor scores of the returned breakdown
FactorScore(factor) == impact_result.value.breakdown[factor].score

NoErrorCode == Get(impact_parsed_alert, "error_code", PyNone) = PyNone

NoKnownModule == Get(impact_parsed_alert, "module", "Unknown") = "Unknown"

NoAlertText == "alert_text" \notin DOMAIN impact_parsed_alert

\* the factors other than module criticality score 0 when their input is absent
OtherAbsentFactorsScoreZero ==
    /\ NoErrorCode => FactorScore("error_code_severity") = 0
    /\ NoAlertText => (FactorScore("customer_mentions") = 0
                       /\ FactorScore("transaction_context") = 0)
    /\ similar_cases = <<>> => FactorScore("recurrence") = 0

\* C16 as stated: calculate_impact_score never fails, and every factor whose
\* input is absent scores 0, module criticality for a missing or Unknown
\* module included.
C16_Original_AbsentInputsScoreZero ==
    /\ impact_result.status \notin {"pending", "idle"} => ImpactReturned
    /\ ImpactReturned =>
           /\ OtherAbsentFactorsScoreZero
           /\ NoKnownModule => FactorScore("module_criticality") = 0

\* C16 (amended): calculate_impact_score never fails; no error code gives
\* error_code_severity 0, a missing alert text gives customer_mentions 0 and
\* transaction_context 0, no cases give recurrence 0, and a missing or
\* Unknown module gives module_criticality 10, the weight of the API tier.
C16_AbsentInputs ==
    /\ impact_result.status \notin {"pending", "idle"} => ImpactReturned
    /\ ImpactReturned =>
           /\ OtherAbsentFactorsScoreZero
           /\ NoKnownModule =>
                  FactorScore("module_criticality") = ModuleCriticality("API")

\* an alert without any field and no cases: 10 points, all from the module default
C16_Witness ==
    /\ ImpactReturned
    /\ impact_parsed_alert = EmptyDict
    /\ similar_cases = <<>>
    /\ FactorScore("module_criticality") = 10
    /\ impact_result.value.impact_score = 10
    /\ impact_result.value.severity = "Low"

\* the alert of the scenario: VESSEL_ERR_4 in module Vessel, a text without
\* customer-urgency keywords, exactly one case at relevance 0.9
VesselScenario ==
    /\ Get(impact_parsed_alert, "error_code", PyNone)
           = <<"V", "E", "S", "S", "E", "L", "_", "E", "R", "R", "_", "4">>
    /\ Get(impact_parsed_alert, "module", "") = "Vessel"
    /\ Matches(customer_keywords, LowerText(Get(impact_parsed_alert, "alert_text", {}))) = <<>>
    /\ Len(similar_cases) = 1
    /\ Get(similar_cases[1], "relevance_score", 0) = 90

\* C18: error code VESSEL_ERR_4, module Vessel, no customer-urgency keyword
\* and exactly one case at relevance 0.9 give error_code_severity 40,
\* module_criticality 25, a total of at least 65 and the label High or Critical.
C18_VesselScenario ==
    (ImpactReturned /\ VesselScenario)
    => /\ FactorScore("error_code_severity") = 40
       /\ FactorScore("module_criticality") = 25
       /\ impact_result.value.impact_score >= 65
       /\ impact_result.value.severity \in {"High", "Critical"}

\* the scenario with a text that mentions a timeout: 40 + 25 + 3 + 3 gives 71, Critical
C18_Witness ==
    /\ ImpactReturned
    /\ VesselScenario
    /\ "alert_text" \in DOMAIN impact_parsed_alert
    /\ FactorScore("recurrence") = 3
    /\ FactorScore("transaction_context") = 3
    /\ impact_result.value.impact_score = 71
    /\ impact_result.value.severity = "Critical"

\* the five factors of the breakdown
ImpactFactors ==
    {"error_code_severity", "module_criticality", "customer_mentions",
     "recurrence", "transaction_context"}

\* C21: in every returned assessment each of the five factors of the
\* breakdown scores between 0 and the max_score reported next to it.
C21_FactorsWithinMax ==
    ImpactReturned =>
        \A factor \in ImpactFactors :
            /\ 0 <= FactorScore(factor)
            /\ FactorScore(factor) <= impact_result.value.breakdown[factor].max_score

(***************************************************************************)
(* Properties of the Confidence Assessor                                   *)
(***************************************************************************)
ConfidenceReturned == confidence_result.status = "returned"

ConfidenceScore == confidence_result.value.overall_score

ConfidenceRecommendation == confidence_result.value.interpretation.recommendation

\* every relevance score of a list of cases or articles lies in [0, 1]
RelevanceInRange(list) ==
    \A i \in DOMAIN list : Get(list[i], "relevance_score", 0) \in 0..100

BundleInRange == RelevanceInRange(confidence_cases) /\ RelevanceInRange(kb_articles)

\* C11: for every evidence bundle whose relevance scores lie in [0, 1], every
\* parsed alert and every evidence summary, the overall score returned by
\* generate_confidence_assessment lies in [0, 100].
C11_ConfidenceScoreInRange ==
    (ConfidenceReturned /\ BundleInRange) => ConfidenceScore \in 0..100

\* every factor at 100 percent: the weights add up to the top of the range
C11_Witness ==
    /\ ConfidenceReturned
    /\ BundleInRange
    /\ Len(confidence_cases) > 0
    /\ Len(kb_articles) > 0
    /\ ConfidenceScore = 100

\* no log evidence, no historical case, no KB article, module "Unknown"
EmptyBundleUnknownModule ==
    /\ log_evidence = 0
    /\ confidence_cases = <<>>
    /\ kb_articles = <<>>
    /\ Get(confidence_parsed, "module", "") = "Unknown"

\* the alert names an entity and an error code, the summary has four entries
BothIdentifiersFullSummary ==
    /\ TruthyStr(Get(confidence_parsed, "entity_id", NoneStr))
    /\ TruthyStr(Get(confidence_parsed, "error_code", NoneStr))
    /\ evidence_summary >= 4

\* C17 as stated: with an empty evidence bundle and module "Unknown" the
\* overall score is at most 20 and the recommendation is ESCALATE, for every
\* entity id, error code and evidence-summary length.
C17_Original_EmptyBundleAtMost20 ==
    (ConfidenceReturned /\ EmptyBundleUnknownModule)
    => (ConfidenceScore <= 20 /\ ConfidenceRecommendation = "ESCALATE")

\* C17 (amended): with an empty evidence bundle and module "Unknown" the
\* overall score is at most 33; the recommendation is ESCALATE, except that
\* an alert with both an entity id and an error code and an evidence summary
\* of four or more entries scores 33 and is recommended INVESTIGATE FURTHER.
C17_EmptyBundleAtMost33 ==
    (ConfidenceReturned /\ EmptyBundleUnknownModule)
    => /\ ConfidenceScore <= 33
       /\ IF BothIdentifiersFullSummary
          THEN ConfidenceScore = 33 /\ ConfidenceRecommendation = "INVESTIGATE FURTHER"
          ELSE ConfidenceScore < 30 /\ ConfidenceRecommendation = "ESCALATE"

\* entity id and error code present, three summary entries: 13.2 + 15 gives 28
C17_Witness ==
    /\ ConfidenceReturned
    /\ EmptyBundleUnknownModule
    /\ TruthyStr(Get(confidence_parsed, "entity_id", NoneStr))
    /\ TruthyStr(Get(confidence_parsed, "error_code", NoneStr))
    /\ evidence_summary = 3
    /\ ConfidenceScore = 28
    /\ ConfidenceRecommendation = "ESCALATE"

\* a historical case or a KB article of the bundle has a negative relevance score
NegativeRelevance(list) ==
    \E i \in DOMAIN list : Get(list[i], "relevance_score", 0) < 0

\* C15: a call whose evidence bundle holds a negative relevance score (a
\* structurally invalid input) is rejected with InvalidInput; it is never
\* coerced into an assessment.
C15_InvalidInputRejected ==
    (/\ confidence_result.status \notin {"pending", "idle"}
     /\ NegativeRelevance(confidence_cases) \/ NegativeRelevance(kb_articles))
    => confidence_result.status = "InvalidInput"

\* the percentages of the returned breakdown
ReturnedPercentage(factor) == confidence_result.value.breakdown[factor].percentage

\* the same list found by the module fallback search: no relevance scores
WithoutRelevance(list) ==
    [i \in DOMAIN list |->
        [k \in DOMAIN list[i] \ {"relevance_score"} |-> list[i][k]]]

\* the best match of a list carries a relevance score in (0, 1]
KeywordMatch(list) ==
    /\ Len(list) > 0
    /\ Get(list[1], "relevance_score", 0) \in 1..100

\* C22: with relevance scores in (0, 1], the knowledge-base percentage of an
\* exact error-code match is never lower than the percentage the relevance
\* score of the same articles gives, and the percentage a relevance score
\* gives (knowledge base and past cases) is never lower than the percentage
\* of the same list found by the same-module fallback.
C22_TierPrecedence ==
    ConfidenceReturned =>
        /\ (KeywordMatch(kb_articles) /\ ErrorCodeMatch(kb_articles, confidence_parsed))
           => ReturnedPercentage("knowledge_base")
                  >= PercentOf(kb_articles[1].relevance_score)
        /\ (KeywordMatch(kb_articles) /\ ~ErrorCodeMatch(kb_articles, confidence_parsed))
           => ReturnedPercentage("knowledge_base")
                  >= KbPercentage(WithoutRelevance(kb_articles), confidence_parsed)
        /\ KeywordMatch(confidence_cases)
           => ReturnedPercentage("past_cases")
                  >= CasePercentage(WithoutRelevance(confidence_cases))

(***************************************************************************)
(* Properties of the escalation pipeline                                   *)
(***************************************************************************)
Bound(name) == name \in DOMAIN pipeline_locals

\* C14: within one incident the impact and the confidence assessment are
\* both complete before the Resolver runs, the Resolver is complete before
\* the justification is generated, and the feedback record is written only
\* after the justification was produced.
C14_StepOrder ==
    /\ [](Bound("final_escalation_decision") =>
              (Bound("impact_assessment") /\ Bound("confidence_assessment")))
    /\ [](Bound("justification") => Bound("final_escalation_decision"))
    /\ [][stored_decisions' # stored_decisions => Bound("justification")]_vars

\* an incident went through all seven steps while one decision record was
\* already stored, and its own record was written
C14_Witness ==
    /\ pipeline_pc = "returned"
    /\ Bound("impact_assessment")
    /\ Bound("final_escalation_decision")
    /\ Bound("justification")
    /\ Len(stored_decisions) = 2
    /\ stored_decisions[2].incident_id = pipeline_locals.incident_id

(***************************************************************************)
(* Properties of the request tracker                                       *)
(***************************************************************************)
\* C19: after any sequence of create_request, start_processing,
\* complete_request and fail_request calls, from any threads, the number of
\* entries of active_requests never exceeds max_concurrent (3).
C19_BoundedConcurrency == Len(active_requests) <= max_concurrent

\* active_requests is full, the start of a queued request was turned away and
\* the request was put back at the head of the queue
C19_Witness ==
    /\ Len(active_requests) = max_concurrent
    /\ queue_return.op = "start_processing"
    /\ queue_return.id \in DOMAIN requests
    /\ queue_return.value = "False"
    /\ ~Contains(active_requests, queue_return.id)
    /\ Len(queue) > 0 /\ Head(queue) = queue_return.id

\* C20: every construction of RequestQueueManager, concurrent ones included,
\* returns the same instance; the state of the manager is initialised
\* exactly once; and no construction resets requests that were already created.
C20_Singleton ==
    /\ [](/\ objects_created <= 1
          /\ \A t \in Threads : thread_self[t] \in {0, 1}
          /\ init_runs <= 1
          /\ module_loaded => (init_runs = 1 /\ manager_initialized = "True"))
    /\ [][(\E t \in Threads : Construct(t)) =>
              UNCHANGED <<requests, queue, active_requests, completed_requests>>
              \/ init_runs = 0]_vars

\* every thread holds the object of its own construction, made while
\* requests were already queued
C20_Witness ==
    /\ module_loaded
    /\ \A t \in Threads : thread_self[t] = 1 /\ thread_pc[t] = "done"
    /\ Len(queue) > 0
    /\ DOMAIN requests = issued_ids

\* how often an id occurs in a list
Occurrences(list, x) == Cardinality({i \in 1..Len(list) : list[i] = x})

\* C27: after any sequence of create_request, start_processing,
\* complete_request and fail_request calls every request id occurs at most
\* once in active_requests, at most once in queue, and never in both.
C27_NoDuplicateIds ==
    \A request_id \in issued_ids :
        Occurrences(active_requests, request_id) + Occurrences(queue, request_id) <= 1

\* the request is completed or failed
Finished(request_id) ==
    /\ request_id \in DOMAIN requests
    /\ requests[request_id].status \in {"completed", "failed"}

\* C28: a request whose status is completed or failed is in neither queue
\* nor active_requests, and no call moves it to processing again.
C28_FinishedStaysFinished ==
    /\ [](\A request_id \in issued_ids :
              Finished(request_id) =>
                  (~Contains(queue, request_id) /\ ~Contains(active_requests, request_id)))
    /\ [][\A request_id \in issued_ids :
              (Finished(request_id) /\ request_id \in DOMAIN requests')
              => requests'[request_id].status # "processing"]_vars

\* C29: a start_processing call that is turned away because max_concurrent
\* requests are active changes nothing: queue holds the same ids in the same
\* order, active_requests and the status of every request are as before.
C29_RejectedStartChangesNothing ==
    [][(/\ StartProcessing
        /\ queue_return'.id \in DOMAIN requests
        /\ AtCapacity(active_requests))
       => (/\ queue_return'.value = "False"
           /\ UNCHANGED <<queue, active_requests, requests>>)]_vars

(***************************************************************************)
(* Properties of the outcome analysis                                      *)
(***************************************************************************)
AnalysisReturned == analysis_result.status = "returned"

\* the bucket the comparison of the decision on record with
\* escalation_was_needed gives
BucketOf(escalated, needed) ==
    IF escalated /\ needed THEN "correct_escalation"
    ELSE IF ~escalated /\ ~needed THEN "correct_no_escalation"
    ELSE IF ~escalated /\ needed THEN "incorrect_no_escalation"
    ELSE "incorrect_escalation"

\* C23: the decision accuracy returned for an outcome is the bucket that the
\* escalate flag of the decision on record and escalation_was_needed of the
\* outcome give: escalated and needed is correct_escalation, neither is
\* correct_no_escalation, needed but not escalated is incorrect_no_escalation,
\* escalated but not needed is incorrect_escalation.
C23_AccuracyComparesDecision ==
    AnalysisReturned =>
        analysis_result.value.decision_accuracy
            = BucketOf(recorded_decision.escalate,
                       Get(analysis_outcome, "escalation_was_needed", TRUE))

(***************************************************************************)
(* Properties of the status queries                                        *)
(***************************************************************************)
\* a query of the thread is in progress: its frame is the bottom of the stack
InProgress(method) == call_stack # <<>> /\ call_stack[1].method = method

\* C24: called while request_lock is free, get_status, get_estimated_wait
\* for a queued request and get_request_status for a known request return
\* to the caller: the query in progress is eventually over.
C24_StatusQueriesReturn ==
    /\ InProgress("get_status") ~> (call_stack = <<>>)
    /\ (InProgress("get_estimated_wait") /\ Contains(queue, call_stack[1].request_id))
           ~> (call_stack = <<>>)
    /\ (InProgress("get_request_status") /\ call_stack[1].request_id \in DOMAIN requests)
           ~> (call_stack = <<>>)

(***************************************************************************)
(* Properties of the confidence assessment handed to the Resolver          *)
(***************************************************************************)
\* the Resolver has returned a decision for the assessment of this diagnosis
ResolvedAssessment ==
    /\ ConfidenceReturned
    /\ ResolveReturned
    /\ confidence_assessment = confidence_result.value

\* C30: whenever the recommendation of a confidence assessment is "ESCALATE"
\* (overall score below 30), the Resolver applied to that assessment returns
\* escalate = true, for every severity, impact score and advisory decision.
C30_EscalateTagAgrees ==
    /\ (ConfidenceReturned /\ ConfidenceRecommendation = "ESCALATE")
       => ConfidenceScore < GrayZoneLow
    /\ (ResolvedAssessment /\ ConfidenceRecommendation = "ESCALATE")
       => final_decision.escalate = TRUE

\* identifiers alone: 20 percent, tagged ESCALATE; nothing else asks for
\* escalation and the advisory decision says no
C30_Witness ==
    /\ ResolvedAssessment
    /\ ConfidenceRecommendation = "ESCALATE"
    /\ ConfidenceScore = 20
    /\ ArgSeverity = "Low"
    /\ ArgImpact = 0
    /\ "escalate" \in DOMAIN gpt_decision /\ gpt_decision.escalate = FALSE
    /\ final_decision.escalate = TRUE
    /\ final_decision.escalate_to = "Product Team"

====
